---- MODULE Spec2Model ----
(***************************************************************************)
(* Adaptive tutoring backend: the live session store (SessionService),     *)
(* the orchestrator (TeachingService.process_student_message), retrieval   *)
(* (VectorService) and provider selection (ModelManager).                  *)
(*                                                                         *)
(* Every call to the session store (redis get / setex / delete), to the    *)
(* durable sink (one table insert), to retrieval and to the generation     *)
(* provider is one atomic step of the calling request; the Python between  *)
(* two such calls works on request-local data and is merged into the step  *)
(* that precedes it.  Requests are served by concurrent workers (Procs).   *)
(*                                                                         *)
(* Spec and SpecSeq run requests against a session store that answers      *)
(* every call; SpecFn runs one call or one request at a time from a drawn   *)
(* session and documents table, and there the session store may raise.     *)
(***************************************************************************)
EXTENDS Integers, Sequences, FiniteSets, TLC

(* ------------------------------ bounds -------------------------------- *)
\* requests started over a run
MaxOps == 3
\* collaborator calls (retrieval, generation, durable insert, and where the
\* session store may fail, its calls) that fail over a run
MaxFaults == 1
\* clock ticks that make up one full TTL
TicksPerTtl == 2

Procs == {1, 2}
\* the identifiers uuid4 hands out
SessionIds == {1, 2}

(* ------------------------- program constants -------------------------- *)
session_ttl == 3600
INITIAL_PROFICIENCY == 50
ADVANCED_MIN == 75
INTERMEDIATE_MIN == 40
SCORE_MIN == 0
SCORE_MAX == 100
DEFAULT_DIFFICULTY == "intermediate"
DIFFICULTY_LEVELS == {"beginner", "intermediate", "advanced"}

\* Python None: a missing key of the store, an unset local
None == [none |-> TRUE]

Max(a, b) == IF a >= b THEN a ELSE b
Min(a, b) == IF a <= b THEN a ELSE b

VARIABLES
    redis,                  \* live store: session id -> session record or None
    ttl,                    \* remaining lifetime of each key, in seconds
    used,                   \* identifiers uuid4 has generated so far
    conversation_history,   \* durable table conversation_history (row sequence)
    session_summaries,      \* durable table session_summaries
    user_experiences,       \* durable table user_experiences
    documents,              \* content store table documents (row sequence)
    config,                 \* Config: which provider settings are present
    frame,                  \* per worker: position and locals of its request
    started,                \* requests started so far
    faults                  \* collaborator calls that have failed so far

vars == <<redis, ttl, used, conversation_history, session_summaries,
          user_experiences, documents, config, frame, started, faults>>

sink == <<conversation_history, session_summaries, user_experiences>>

(* ------------------------------- text --------------------------------- *)
\* A str is the sequence of its characters.
\* ""
EMPTY_TEXT ==
    <<>>
\* "I dont no what too do"
DONT_NO_TEXT ==
    <<"I", " ", "d", "o", "n", "t", " ", "n", "o", " ", "w", "h", "a", "t", " ",
      "t", "o", "o", " ", "d", "o">>
\* "Can you explain the past tense?"
PAST_TENSE_TEXT ==
    <<"C", "a", "n", " ", "y", "o", "u", " ", "e", "x", "p", "l", "a", "i", "n",
      " ", "t", "h", "e", " ", "p", "a", "s", "t", " ", "t", "e", "n", "s", "e", "?">>
\* "Ubiquitous paradigms proliferate"
RICH_TEXT ==
    <<"U", "b", "i", "q", "u", "i", "t", "o", "u", "s", " ", "p", "a", "r", "a",
      "d", "i", "g", "m", "s", " ", "p", "r", "o", "l", "i", "f", "e", "r", "a",
      "t", "e">>
\* "ok"
OK_TEXT ==
    <<"o", "k">>
\* "a a a a a a a a a a a"
LONG_TEXT ==
    <<"a", " ", "a", " ", "a", " ", "a", " ", "a", " ", "a", " ", "a", " ", "a",
      " ", "a", " ", "a", " ", "a">>
\* "quiz me"
QUIZ_TEXT ==
    <<"q", "u", "i", "z", " ", "m", "e">>
\* "bye"
BYE_TEXT ==
    <<"b", "y", "e">>
\* "?!."
PUNCT_TEXT ==
    <<"?", "!", ".">>
\* "when does it end"
WHEN_END_TEXT ==
    <<"w", "h", "e", "n", " ", "d", "o", "e", "s", " ", "i", "t", " ", "e", "n", "d">>

\* "Extraordinary"
ONE_WORD_TEXT ==
    <<"E", "x", "t", "r", "a", "o", "r", "d", "i", "n", "a", "r", "y">>

\* the utterances requests are drawn from, by number
Utterances ==
    <<EMPTY_TEXT, DONT_NO_TEXT, PAST_TENSE_TEXT, RICH_TEXT, OK_TEXT, LONG_TEXT,
      QUIZ_TEXT, BYE_TEXT, PUNCT_TEXT, WHEN_END_TEXT, ONE_WORD_TEXT>>
TextIds == 1..Len(Utterances)
\* the utterances the concurrent specification submits: no rule fires / +3 / -1
ChatTextIds == {2, 4, 5}

Whitespace == {" "}

UpperToLower ==
    [A |-> "a", B |-> "b", C |-> "c", D |-> "d", E |-> "e", F |-> "f", G |-> "g",
     H |-> "h", I |-> "i", J |-> "j", K |-> "k", L |-> "l", M |-> "m", N |-> "n",
     O |-> "o", P |-> "p", Q |-> "q", R |-> "r", S |-> "s", T |-> "t", U |-> "u",
     V |-> "v", W |-> "w", X |-> "x", Y |-> "y", Z |-> "z"]

\* str.lower()
Lower(str) ==
    [i \in 1..Len(str) |->
        IF str[i] \in DOMAIN UpperToLower THEN UpperToLower[str[i]] ELSE str[i]]

\* str.split(): the maximal runs of non-whitespace characters
Split(str) ==
    LET F[i \in 0..Len(str)] ==
            IF i = 0 THEN <<<<>>, <<>>>>
            ELSE LET prev == F[i - 1]
                 IN  IF str[i] \in Whitespace
                     THEN IF prev[2] = <<>> THEN prev
                          ELSE <<Append(prev[1], prev[2]), <<>>>>
                     ELSE <<prev[1], Append(prev[2], str[i])>>
        last == F[Len(str)]
    IN  IF last[2] = <<>> THEN last[1] ELSE Append(last[1], last[2])

RECURSIVE LStrip(_, _)
LStrip(str, chars) ==
    IF str # <<>> /\ Head(str) \in chars THEN LStrip(Tail(str), chars) ELSE str

RECURSIVE RStrip(_, _)
RStrip(str, chars) ==
    IF str # <<>> /\ str[Len(str)] \in chars
    THEN RStrip(SubSeq(str, 1, Len(str) - 1), chars) ELSE str

\* str.strip(chars)
Strip(str, chars) == RStrip(LStrip(str, chars), chars)

\* str.count(c) for a single character c
Count(str, c) == Cardinality({i \in 1..Len(str) : str[i] = c})

\* sub in str
Contains(str, sub) ==
    \E i \in 1..(Len(str) - Len(sub) + 1) : SubSeq(str, i, i + Len(sub) - 1) = sub

RECURSIVE SumLen(_)
SumLen(words) == IF words = <<>> THEN 0 ELSE Len(Head(words)) + SumLen(Tail(words))

(* ----------------------------- sessions ------------------------------- *)
\* dict.update(updates): keys of updates overwrite, the others are kept
DictUpdate(d, updates) ==
    [k \in (DOMAIN d) \cup (DOMAIN updates) |->
        IF k \in DOMAIN updates THEN updates[k] ELSE d[k]]

\* (mutant) a new session starts at the lowest level
NewSessionData_Beginner ==
    [conversation_history |-> <<>>,
     difficulty_level     |-> "beginner",
     subject              |-> "english",
     proficiency_score    |-> INITIAL_PROFICIENCY,
     interaction_count    |-> 0,
     initial_proficiency  |-> INITIAL_PROFICIENCY,
     session_status       |-> "active"]

\* the session_data dict built by create_session
NewSessionData ==
    [conversation_history |-> <<>>,
     difficulty_level     |-> DEFAULT_DIFFICULTY,
     subject              |-> "english",
     proficiency_score    |-> INITIAL_PROFICIENCY,
     interaction_count    |-> 0,
     initial_proficiency  |-> INITIAL_PROFICIENCY,
     session_status       |-> "active"]

\* (mutant) the upper limit is left out
Clamp_NoCeiling(score) == Max(SCORE_MIN, score)

\* update_proficiency: max(0, min(100, current_score + score_change))
Clamp(score) == Max(SCORE_MIN, Min(SCORE_MAX, score))

\* (mutant) advanced starts five points later
LevelOf_AdvancedLater(new_score) ==
    IF new_score >= ADVANCED_MIN + 5 THEN "advanced"
    ELSE IF new_score >= INTERMEDIATE_MIN THEN "intermediate"
    ELSE "beginner"

\* update_proficiency: the if / elif / else over new_score
LevelOf(new_score) ==
    IF new_score >= ADVANCED_MIN THEN "advanced"
    ELSE IF new_score >= INTERMEDIATE_MIN THEN "intermediate"
    ELSE "beginner"

\* (mutant) the score is stored and the level is left as it was
WithProficiency_ScoreOnly(session_data, score_change) ==
    [session_data EXCEPT
        !.proficiency_score = Clamp(session_data.proficiency_score + score_change)]

\* update_proficiency: session_data after the score and level assignments
WithProficiency(session_data, score_change) ==
    LET new_score == Clamp(session_data.proficiency_score + score_change)
    IN  [session_data EXCEPT !.proficiency_score = new_score,
                             !.difficulty_level = LevelOf(new_score)]

\* (mutant) the turn is appended and the count left alone
WithMessage_NoCount(session_data, message) ==
    [session_data EXCEPT !.conversation_history = Append(@, message)]

\* add_to_conversation: session_data after the append and the increment
WithMessage(session_data, message) ==
    [session_data EXCEPT
        !.conversation_history = Append(@, message),
        !.interaction_count = @ + 1]

(* ----------------------------- estimator ------------------------------ *)
StripChars == {".", ",", "!", "?"}

\* set(word.lower().strip('.,!?') for word in words)
UniqueWords(words) == {Strip(Lower(words[i]), StripChars) : i \in 1..Len(words)}

\* message.count('.') + message.count('!') + message.count('?') + 1
SentenceCount(message) ==
    Count(message, ".") + Count(message, "!") + Count(message, "?") + 1

\* vocabulary_diversity > 0.8, with len(unique_words) / len(words) if words else 0
DiversityHigh(words) ==
    Len(words) > 0 /\ 5 * Cardinality(UniqueWords(words)) > 4 * Len(words)

\* average_word_length > 5, with sum(len(word)) / len(words) if words else 0
WordsLong(words) == Len(words) > 0 /\ SumLen(words) > 5 * Len(words)

\* sentence_length = len(words) / max(1, sentence_count), compared with a bound
SentenceLengthAbove(message, words, bound) ==
    Len(words) > bound * Max(1, SentenceCount(message))
SentenceLengthBelow(message, words, bound) ==
    Len(words) < bound * Max(1, SentenceCount(message))

\* complexity_indicators: the two sentence measures; a quotient is the pair
\* <<dividend, divisor>>
ComplexityIndicators(message) ==
    [sentence_count |-> SentenceCount(message),
     sentence_length |-> <<Len(Split(message)), Max(1, SentenceCount(message))>>]

\* an estimator whose first rule lets an advanced session fall through
AnalyzeProficiency_AdvancedFallsThrough(message, current_level) ==
    LET words == Split(message)
    IN  IF DiversityHigh(words) /\ WordsLong(words) /\ current_level # "advanced"
        THEN IF current_level = "beginner" THEN 5 ELSE 3
        ELSE IF SentenceLengthAbove(message, words, 10) /\ current_level = "beginner"
        THEN 3
        ELSE IF SentenceLengthBelow(message, words, 3) /\ current_level = "advanced"
        THEN -2
        ELSE IF Len(words) < 3 /\ current_level \in {"intermediate", "advanced"}
        THEN -1
        ELSE 0

\* _analyze_proficiency: score_change
AnalyzeProficiency(message, current_level) ==
    LET words == Split(message)
    IN  IF DiversityHigh(words) /\ WordsLong(words)
        THEN IF current_level = "beginner" THEN 5
             ELSE IF current_level = "intermediate" THEN 3
             ELSE 0
        ELSE IF SentenceLengthAbove(message, words, 10) /\ current_level = "beginner"
        THEN 3
        ELSE IF SentenceLengthBelow(message, words, 3) /\ current_level = "advanced"
        THEN -2
        ELSE IF Len(words) < 3 /\ current_level \in {"intermediate", "advanced"}
        THEN -1
        ELSE 0

\* the score_change of every utterance at every level, computed once
ScoreChangeOf ==
    [t \in TextIds |-> [l \in DIFFICULTY_LEVELS |-> AnalyzeProficiency(Utterances[t], l)]]

(* ------------------------------ strategy ------------------------------ *)
TEST_WORDS ==
    {<<"t", "e", "s", "t">>, <<"q", "u", "i", "z">>, <<"e", "x", "a", "m">>,
     <<"p", "r", "a", "c", "t", "i", "c", "e">>}
QUESTION_WORDS ==
    {<<"w", "h", "a", "t">>, <<"h", "o", "w">>, <<"w", "h", "y">>,
     <<"w", "h", "e", "n">>, <<"w", "h", "e", "r", "e">>}
ENDING_WORDS ==
    {<<"b", "y", "e">>, <<"g", "o", "o", "d", "b", "y", "e">>, <<"e", "n", "d">>,
     <<"f", "i", "n", "i", "s", "h">>, <<"s", "t", "o", "p">>, <<"d", "o", "n", "e">>}

\* any(word in message.lower() for word in words)
AnyIn(words, message) == \E w \in words : Contains(Lower(message), w)

ASSESSMENT_INTERACTIONS == 3

\* (mutant) the session-ending keywords are looked at before the question rule
KeywordStrategy_EndingFirst(message) ==
    IF AnyIn(TEST_WORDS, message) THEN "test_prep"
    ELSE IF AnyIn(ENDING_WORDS, message) THEN "session_ending"
    ELSE IF Contains(message, <<"?">>) \/ AnyIn(QUESTION_WORDS, message)
    THEN "concept_teaching"
    ELSE "general_teaching"

\* _generate_adaptive_response: the elif branches over the message
KeywordStrategy(message) ==
    IF AnyIn(TEST_WORDS, message) THEN "test_prep"
    ELSE IF Contains(message, <<"?">>) \/ AnyIn(QUESTION_WORDS, message)
    THEN "concept_teaching"
    ELSE IF AnyIn(ENDING_WORDS, message) THEN "session_ending"
    ELSE "general_teaching"

\* (mutant) a keyword rule that fires wins over the interaction counter
SelectStrategy_KeywordsFirst(interaction_count, message) ==
    IF KeywordStrategy(message) # "general_teaching" THEN KeywordStrategy(message)
    ELSE IF interaction_count < ASSESSMENT_INTERACTIONS THEN "assessment"
    ELSE "general_teaching"

\* _generate_adaptive_response: the strategy chain
SelectStrategy(interaction_count, message) ==
    IF interaction_count < ASSESSMENT_INTERACTIONS THEN "assessment"
    ELSE KeywordStrategy(message)

\* the keyword class of every utterance, computed once
KeywordStrategyOf ==
    [t \in TextIds |-> SelectStrategy(ASSESSMENT_INTERACTIONS, Utterances[t])]

(* ------------------------------ retrieval ----------------------------- *)
\* rows of the largest documents table
MaxDocs == 6
\* the largest limit a search is called with
MaxLimit == 6

DEFAULT_LIMIT == 5
PLACEHOLDER_SCORE == 80     \* score = 0.8, in hundredths
CONTEXT_RESULTS == 3

\* The embeddings are unit vectors of two components, so that the cosine of
\* two of them is their dot product.
\* self.embeddings.embed_query(text): the provider's vector for a text
embed_query(text) == IF text % 2 = 0 THEN <<1, 0>> ELSE <<0, 1>>

\* the rows of the documents table, as add_documents stores them
StoredDocuments ==
    << [content |-> 1, subject |-> "english", difficulty_level |-> "intermediate",
        content_type |-> "lesson", embedding |-> embed_query(1)],
       [content |-> 2, subject |-> "english", difficulty_level |-> "advanced",
        content_type |-> "lesson", embedding |-> embed_query(2)],
       [content |-> 3, subject |-> "math", difficulty_level |-> "intermediate",
        content_type |-> "exercise", embedding |-> embed_query(3)],
       [content |-> 4, subject |-> "english", difficulty_level |-> "intermediate",
        content_type |-> "exercise", embedding |-> embed_query(4)] >>

\* a table whose rows all carry the metadata add_documents defaults to
LargeStore ==
    [i \in 1..MaxDocs |->
        [content |-> i, subject |-> "english", difficulty_level |-> "intermediate",
         content_type |-> "lesson", embedding |-> embed_query(i)]]

\* metadata_filters is a dict, written as the set of its (key, value) items.
FILTER_KEYS == {"subject", "difficulty_level", "content_type"}

\* (mutant) only the subject filter reaches the query
Matches_SubjectOnly(doc, metadata_filters) ==
    \A item \in metadata_filters : item[1] = "subject" => doc[item[1]] = item[2]

\* the .eq(key, value) predicates hybrid_search adds for the keys it knows
Matches(doc, metadata_filters) ==
    \A item \in metadata_filters : item[1] \in FILTER_KEYS => doc[item[1]] = item[2]

\* search_query.limit(limit).execute(): the first rows that pass the filters
QueryDocuments(docs, metadata_filters, limit) ==
    LET Pass(doc) == Matches(doc, metadata_filters)
        rows == SelectSeq(docs, Pass)
    IN  SubSeq(rows, 1, Min(limit, Len(rows)))

\* sorted(scored_results, key=score, reverse=True): stable insertion by score
RECURSIVE SortedByScore(_)
SortedByScore(scored) ==
    IF scored = <<>> THEN <<>>
    ELSE LET rest == SortedByScore(SubSeq(scored, 1, Len(scored) - 1))
             x == scored[Len(scored)]
             k == Cardinality({i \in 1..Len(rest) : rest[i].score >= x.score})
         IN  SubSeq(rest, 1, k) \o <<x>> \o SubSeq(rest, k + 1, Len(rest))

\* hybrid_search when neither the embedding call nor the store call raises
hybrid_search(docs, query, metadata_filters, limit) ==
    LET query_embedding == embed_query(query)
        rows == QueryDocuments(docs, metadata_filters, limit)
    IN  SortedByScore([i \in 1..Len(rows) |->
            [content |-> rows[i].content, score |-> PLACEHOLDER_SCORE]])

\* hybrid_search: the except branch
SearchFailed == <<>>

\* filters = {'difficulty_level': difficulty_level}; filters['subject'] = subject
DifficultyFilters(difficulty_level, subject) ==
    {<<"subject", subject>>, <<"difficulty_level", difficulty_level>>}

search_by_difficulty(docs, query, difficulty_level, subject) ==
    hybrid_search(docs, query, DifficultyFilters(difficulty_level, subject),
                  DEFAULT_LIMIT)

(* --------------------------- model manager ---------------------------- *)
\* get_active_model: the provider whose client is returned
get_active_model(cfg) ==
    IF cfg.PREFER_LEARNLM /\ cfg.GOOGLE_API_KEY THEN "learnlm"
    ELSE IF cfg.OPENROUTER_API_KEY THEN "openrouter"
    ELSE "openrouter"   \* ValueError caught: return self.get_openrouter_model()

HasKey(cfg, provider) ==
    IF provider = "learnlm" THEN cfg.GOOGLE_API_KEY ELSE cfg.OPENROUTER_API_KEY


Configs == [PREFER_LEARNLM : BOOLEAN, GOOGLE_API_KEY : BOOLEAN, OPENROUTER_API_KEY : BOOLEAN]
DeployedConfig == [PREFER_LEARNLM |-> TRUE, GOOGLE_API_KEY |-> TRUE, OPENROUTER_API_KEY |-> TRUE]

(* ------------------------------ workers ------------------------------- *)
\* A worker's frame: the position (pc) of the request it serves, the
\* arguments and locals of the methods on its call stack, and the value the
\* finished request returned.  request numbers the requests in arrival
\* order; a turn carries it where the code stamps datetime.now().
\* provider_calls lists the providers whose model(messages) was invoked, and
\* logged the methods whose except branch wrote logging.error.
IdleFrame ==
    [pc |-> "idle", op |-> "none", request |-> 0, session_id |-> 0, ret |-> "idle",
     updates |-> None, message |-> None, score_change |-> 0, text |-> 0,
     session_data |-> None, search_results |-> <<>>, response |-> None,
     user_experience |-> FALSE, conversation_stored |-> FALSE, provider_calls |-> <<>>,
     metadata_filters |-> {}, limit |-> 0, data |-> None, status |-> 0,
     messages |-> None, found |-> None, logged |-> {}, result |-> None]

At(p, label) == frame[p].pc = label

\* a request may start while the run's budget lasts
\* (idle workers are interchangeable: the lowest one takes the request)
CanStart(p) ==
    /\ At(p, "idle")
    /\ started < MaxOps
    /\ \A q \in Procs : q < p => ~At(q, "idle")

\* the frame of a request that starts now
NewFrame(op, session_id, fields) ==
    DictUpdate(IdleFrame,
               DictUpdate([op |-> op, session_id |-> session_id, request |-> started + 1],
                          fields))

\* the HTTP status the route answers with when the method it called has
\* returned result (0: the method was not called through a route)
RouteStatus(op, result) ==
    IF op = "chat" THEN (IF "error" \in DOMAIN result THEN 400 ELSE 200)
    ELSE IF op = "end_session"
    THEN (IF "raised" \in DOMAIN result THEN 500
          ELSE IF "returned" \in DOMAIN result /\ result.returned THEN 200
          ELSE 404)
    ELSE 0

\* the frame of a request that returns result: its locals are dropped
Finished(f, result) ==
    DictUpdate(IdleFrame,
               [op |-> f.op, session_id |-> f.session_id, request |-> f.request,
                text |-> f.text, score_change |-> f.score_change,
                metadata_filters |-> f.metadata_filters, limit |-> f.limit,
                data |-> f.data, status |-> RouteStatus(f.op, result),
                messages |-> f.messages, found |-> f.found,
                provider_calls |-> f.provider_calls, logged |-> f.logged,
                result |-> result])

SetFrame(p, f) == frame' = [frame EXCEPT ![p] = f]

\* logging.error in the except branch of method, when the call ended in outcome
Logged(f, outcome, method) ==
    IF outcome = "ok" THEN f ELSE DictUpdate(f, [logged |-> f.logged \cup {method}])
Goto(p, fields) == SetFrame(p, DictUpdate(frame[p], fields))

\* redis GET
get_session(session_id) == redis[session_id]

\* (mutant) the value is written and the key's lifetime is left as it was
Setex_KeepsLifetime(session_id, session_data) ==
    /\ redis' = [redis EXCEPT ![session_id] = session_data]
    /\ UNCHANGED ttl

\* redis SETEX key session_ttl value
Setex(session_id, session_data) ==
    /\ redis' = [redis EXCEPT ![session_id] = session_data]
    /\ ttl' = [ttl EXCEPT ![session_id] = session_ttl]

\* (mutant) the key is left in the store
Delete_Forgotten(session_id) == UNCHANGED <<redis, ttl>>

\* redis DEL key
Delete(session_id) ==
    /\ redis' = [redis EXCEPT ![session_id] = None]
    /\ ttl' = [ttl EXCEPT ![session_id] = 0]

(* ------------------------- the turns of a reply ------------------------ *)
\* process_student_message: the dict of the first add_to_conversation call
StudentTurn(f) ==
    [type |-> "student", message |-> f.text, request |-> f.request,
     proficiency_level |-> f.session_data.difficulty_level,
     proficiency_score |-> f.session_data.proficiency_score]

\* _build_context: the snippets whose content goes into the prompt
build_context(search_results) ==
    SubSeq(search_results, 1, Min(CONTEXT_RESULTS, Len(search_results)))

\* process_student_message: the dict of the second add_to_conversation call
TeacherTurn(f) ==
    [type |-> "teacher", message |-> f.response.content, request |-> f.request,
     teaching_strategy |-> f.response.strategy,
     search_results_used |-> Len(f.search_results)]

\* process_student_message: the dict returned after both appends
\* (mutant) the reply reports the count after its two turns
Reply_FreshCount(f) ==
    [response |-> f.response.content,
     difficulty_level |-> f.session_data.difficulty_level,
     proficiency_score |-> f.session_data.proficiency_score,
     teaching_strategy |-> f.response.strategy,
     interaction_count |-> f.session_data.interaction_count + 2]

Reply(f) ==
    [response |-> f.response.content,
     difficulty_level |-> f.session_data.difficulty_level,
     proficiency_score |-> f.session_data.proficiency_score,
     teaching_strategy |-> f.response.strategy,
     interaction_count |-> f.session_data.interaction_count]

ErrorResult(text) == [error |-> text]
Returned(value) == [returned |-> value]
\* an exception that leaves the method
Raised(exception) == [raised |-> exception]

\* what a worker does when the SessionService method it called returns value:
\* a direct call hands value to its caller, process_student_message ignores
\* it and goes on with its next statement
AfterCall(f, value) ==
    CASE f.ret = "idle" -> Finished(f, Returned(value))
      [] f.ret = "psm_refresh" ->
            DictUpdate(f, [pc |-> "psm_refresh", updates |-> None])
      [] f.ret = "psm_teacher" ->
            DictUpdate(f, [pc |-> "atc_get", ret |-> "psm_return", updates |-> None,
                           message |-> TeacherTurn(f)])
      [] f.ret = "psm_return" -> Finished(f, Reply(f))

(* ---------------------------- collaborators --------------------------- *)
\* how a call to a collaborator can end: it answers, or (while the run's
\* fault budget lasts) it raises
Outcomes == IF faults < MaxFaults THEN {"ok", "error"} ELSE {"ok"}
Fault(outcome) == faults' = IF outcome = "error" THEN faults + 1 ELSE faults

\* model(messages): a provider without credentials refuses the call
CallOutcomes(cfg, provider) == IF HasKey(cfg, provider) THEN Outcomes ELSE {"refused"}

(* --------------------------- SessionService --------------------------- *)
Subjects == {"math"}
ScoreChanges == {-60, 30}

\* the user_data a caller passes: a dict, or nothing (the default, None)
UserData == {None, [user_id |-> "learner"]}

\* create_session: one SETEX under a fresh uuid4; user_data.get raises
\* AttributeError when user_data is None, before anything is stored
create_session(p) ==
    /\ CanStart(p)
    /\ \E user_data \in UserData :
          IF user_data = None
          THEN /\ SetFrame(p, Finished(NewFrame("create_session", 0, <<>>),
                                       Raised("AttributeError")))
               /\ UNCHANGED <<redis, ttl, used>>
          ELSE \E s \in SessionIds \ used :
                  /\ used' = used \cup {s}
                  /\ Setex(s, NewSessionData)
                  /\ SetFrame(p, Finished(NewFrame("create_session", s, <<>>),
                                          Returned(s)))
    /\ started' = started + 1
    /\ UNCHANGED <<sink, documents, config, faults>>

\* update_session: session_data = self.get_session(session_id)
UpdateSessionGet(f) ==
    LET session_data == get_session(f.session_id)
    IN  IF session_data # None
        THEN DictUpdate(f, [pc |-> "us_set",
                            updates |-> DictUpdate(session_data, f.updates)])
        ELSE AfterCall(f, FALSE)

\* a request PUT /session/<id>/subject arrives: update_session up to its GET
change_subject(p) ==
    /\ CanStart(p)
    /\ \E s \in SessionIds, subject \in Subjects :
          SetFrame(p, UpdateSessionGet(
              NewFrame("update_session", s, [updates |-> [subject |-> subject]])))
    /\ started' = started + 1
    /\ UNCHANGED <<redis, ttl, used, sink, documents, config, faults>>

\* update_session called by add_to_conversation or update_proficiency: its GET
update_session_get(p) ==
    /\ At(p, "us_get")
    /\ SetFrame(p, UpdateSessionGet(frame[p]))
    /\ UNCHANGED <<redis, ttl, used, sink, documents, config, started, faults>>

\* update_session: the SETEX of the merged dict, return True
update_session_setex(p) ==
    /\ At(p, "us_set")
    /\ Setex(frame[p].session_id, frame[p].updates)
    /\ SetFrame(p, AfterCall(frame[p], TRUE))
    /\ UNCHANGED <<used, sink, documents, config, started, faults>>

\* add_to_conversation up to its call of update_session
AddToConversationGet(f) ==
    LET session_data == get_session(f.session_id)
    IN  IF session_data # None
        THEN DictUpdate(f, [pc |-> "us_get", message |-> None,
                            updates |-> WithMessage(session_data, f.message)])
        ELSE AfterCall(DictUpdate(f, [message |-> None]), FALSE)

add_to_conversation(p) ==
    /\ At(p, "atc_get")
    /\ SetFrame(p, AddToConversationGet(frame[p]))
    /\ UNCHANGED <<redis, ttl, used, sink, documents, config, started, faults>>

\* (mutant) update_proficiency returns without the write
UpdateProficiencyGet_NothingWritten(f) ==
    AfterCall(f, TRUE)

\* update_proficiency up to its call of update_session
UpdateProficiencyGet(f) ==
    LET session_data == get_session(f.session_id)
    IN  IF session_data # None
        THEN DictUpdate(f, [pc |-> "us_get",
                            updates |-> WithProficiency(session_data, f.score_change)])
        ELSE AfterCall(f, FALSE)

\* update_proficiency called on its own
update_proficiency(p) ==
    /\ CanStart(p)
    /\ \E s \in SessionIds, score_change \in ScoreChanges :
          SetFrame(p, UpdateProficiencyGet(
              NewFrame("update_proficiency", s, [score_change |-> score_change])))
    /\ started' = started + 1
    /\ UNCHANGED <<redis, ttl, used, sink, documents, config, faults>>

\* update_proficiency called by process_student_message
update_proficiency_get(p) ==
    /\ At(p, "up_get")
    /\ SetFrame(p, UpdateProficiencyGet(frame[p]))
    /\ UNCHANGED <<redis, ttl, used, sink, documents, config, started, faults>>

(* ----------------------------- end_session ---------------------------- *)
\* (mutant) the row is filed under the other session's id
ConversationRecord_OtherSession(session_id, session_data) ==
    [session_id |-> CHOOSE t \in SessionIds : t # session_id,
     conversation_data |-> session_data.conversation_history,
     message_count |-> Len(session_data.conversation_history),
     subject |-> session_data.subject,
     final_difficulty_level |-> session_data.difficulty_level,
     final_proficiency_score |-> session_data.proficiency_score]

\* _store_conversation_history: conversation_record
ConversationRecord(session_id, session_data) ==
    [session_id |-> session_id,
     conversation_data |-> session_data.conversation_history,
     message_count |-> Len(session_data.conversation_history),
     subject |-> session_data.subject,
     final_difficulty_level |-> session_data.difficulty_level,
     final_proficiency_score |-> session_data.proficiency_score]

\* (mutant) the improvement is the final score itself
SummaryRecord_ImprovementIsFinal(session_id, session_data) ==
    [session_id |-> session_id,
     subject |-> session_data.subject,
     initial_proficiency_score |-> session_data.initial_proficiency,
     final_proficiency_score |-> session_data.proficiency_score,
     proficiency_improvement |-> session_data.proficiency_score,
     initial_difficulty_level |-> DEFAULT_DIFFICULTY,
     final_difficulty_level |-> session_data.difficulty_level,
     total_interactions |-> session_data.interaction_count,
     session_status |-> session_data.session_status]

\* _store_session_summary: summary_record
SummaryRecord(session_id, session_data) ==
    [session_id |-> session_id,
     subject |-> session_data.subject,
     initial_proficiency_score |-> session_data.initial_proficiency,
     final_proficiency_score |-> session_data.proficiency_score,
     proficiency_improvement |->
         session_data.proficiency_score - session_data.initial_proficiency,
     initial_difficulty_level |-> DEFAULT_DIFFICULTY,
     final_difficulty_level |-> session_data.difficulty_level,
     total_interactions |-> session_data.interaction_count,
     session_status |-> session_data.session_status]

\* (mutant) ending a session that is not there counts as done
EndSessionGet_TrueWhenMissing(f) ==
    LET session_data == get_session(f.session_id)
    IN  IF session_data = None
        THEN Finished(f, Returned(TRUE))
        ELSE DictUpdate(f, [pc |-> "end_store_conversation",
                 session_data |-> [session_data EXCEPT !.session_status = "ended"]])

\* end_session from its GET to the first insert
EndSessionGet(f) ==
    LET session_data == get_session(f.session_id)
    IN  IF session_data = None
        THEN Finished(f, Returned(FALSE))
        ELSE DictUpdate(f, [pc |-> "end_store_conversation",
                 session_data |-> [session_data EXCEPT !.session_status = "ended"]])

\* a request POST /session/<id>/end arrives
end_session(p) ==
    /\ CanStart(p)
    /\ \E s \in SessionIds, user_experience \in BOOLEAN :
          SetFrame(p, EndSessionGet(
              NewFrame("end_session", s, [user_experience |-> user_experience])))
    /\ started' = started + 1
    /\ UNCHANGED <<redis, ttl, used, sink, documents, config, faults>>

\* (mutant) the key is deleted before the summary is stored
AfterStoreConversation_DeleteFirst(f) == "end_delete"

\* where end_session goes after _store_conversation_history
AfterStoreConversation(f) ==
    IF f.user_experience THEN "end_store_experience" ELSE "end_store_summary"

\* _store_conversation_history: the insert succeeds, or it raises and False
\* is returned
store_conversation_history(p) ==
    /\ At(p, "end_store_conversation")
    /\ \E outcome \in Outcomes :
          /\ conversation_history' =
                 IF outcome = "ok"
                 THEN Append(conversation_history,
                             ConversationRecord(frame[p].session_id, frame[p].session_data))
                 ELSE conversation_history
          /\ SetFrame(p, DictUpdate(
                 Logged(frame[p], outcome, "_store_conversation_history"),
                 [pc |-> AfterStoreConversation(frame[p]),
                  conversation_stored |-> (outcome = "ok")]))
          /\ Fault(outcome)
    /\ UNCHANGED <<redis, ttl, used, session_summaries, user_experiences,
                   documents, config, started>>

\* _store_user_experience: its result is not looked at
store_user_experience(p) ==
    /\ At(p, "end_store_experience")
    /\ \E outcome \in Outcomes :
          /\ user_experiences' =
                 IF outcome = "ok"
                 THEN Append(user_experiences, [session_id |-> frame[p].session_id])
                 ELSE user_experiences
          /\ Fault(outcome)
          /\ SetFrame(p, DictUpdate(
                 Logged(frame[p], outcome, "_store_user_experience"),
                 [pc |-> "end_store_summary"]))
    /\ UNCHANGED <<redis, ttl, used, conversation_history, session_summaries,
                   documents, config, started>>

\* where end_session goes after _store_session_summary returned stored
AfterStoreSummary(f, stored) ==
    DictUpdate(f, [pc |-> "end_delete",
                   result |-> Returned(f.conversation_stored /\ stored)])

\* session_summaries.session_id is UNIQUE: the insert of a second row for a
\* session raises whatever else happens
SummaryInsertOutcomes(session_id) ==
    IF \E i \in 1..Len(session_summaries) : session_summaries[i].session_id = session_id
    THEN {"conflict"}
    ELSE Outcomes

\* _store_session_summary
store_session_summary(p) ==
    /\ At(p, "end_store_summary")
    /\ \E outcome \in SummaryInsertOutcomes(frame[p].session_id) :
          /\ session_summaries' =
                 IF outcome = "ok"
                 THEN Append(session_summaries,
                             SummaryRecord(frame[p].session_id, frame[p].session_data))
                 ELSE session_summaries
          /\ SetFrame(p, AfterStoreSummary(
                 Logged(frame[p], outcome, "_store_session_summary"), outcome = "ok"))
          /\ Fault(outcome)
    /\ UNCHANGED <<redis, ttl, used, conversation_history, user_experiences,
                   documents, config, started>>

\* (mutant) the ended copy is written to the store in place of the DEL
end_session_delete_MarksEnded(p) ==
    /\ At(p, "end_delete")
    /\ Setex(frame[p].session_id, frame[p].session_data)
    /\ SetFrame(p, Finished(frame[p], frame[p].result))
    /\ UNCHANGED <<used, sink, documents, config, started, faults>>

\* end_session: redis DEL, then return conversation_stored and
\* session_summary_stored
end_session_delete(p) ==
    /\ At(p, "end_delete")
    /\ Delete(frame[p].session_id)
    /\ SetFrame(p, Finished(frame[p], frame[p].result))
    /\ UNCHANGED <<used, sink, documents, config, started, faults>>

(* ---------------------- process_student_message ----------------------- *)
\* (mutant) update_proficiency is called whatever the score change is
AfterSessionCheck_AlwaysUpdates(f, session_data) ==
    LET score_change ==
            ScoreChangeOf[f.text][session_data.difficulty_level]
        g == DictUpdate(f, [session_data |-> session_data, found |-> session_data,
                            score_change |-> score_change])
    IN  DictUpdate(g, [pc |-> "up_get", ret |-> "psm_refresh"])

\* the statements from the proficiency analysis to the next outside call;
\* found keeps the record the submission read first
AfterSessionCheck(f, session_data) ==
    LET score_change ==
            ScoreChangeOf[f.text][session_data.difficulty_level]
        g == DictUpdate(f, [session_data |-> session_data, found |-> session_data,
                            score_change |-> score_change])
    IN  IF score_change # 0
        THEN DictUpdate(g, [pc |-> "up_get", ret |-> "psm_refresh"])
        ELSE DictUpdate(g, [pc |-> "psm_search"])

\* (mutant) a missing session is replaced by a fresh one
ProcessGet_CreatesMissing(f) ==
    LET session_data == get_session(f.session_id)
    IN  IF session_data = None
        THEN AfterSessionCheck(f, NewSessionData)
        ELSE IF session_data.session_status # "active"
        THEN Finished(f, ErrorResult("Session is not active"))
        ELSE AfterSessionCheck(f, session_data)

\* process_student_message from its first GET on
ProcessGet(f) ==
    LET session_data == get_session(f.session_id)
    IN  IF session_data = None
        THEN Finished(f, ErrorResult("Invalid session"))
        ELSE IF session_data.session_status # "active"
        THEN Finished(f, ErrorResult("Session is not active"))
        ELSE AfterSessionCheck(f, session_data)

\* process_student_message is called
process_student_message(p) ==
    /\ CanStart(p)
    /\ \E s \in SessionIds, text \in ChatTextIds :
          SetFrame(p, ProcessGet(
              NewFrame("process_student_message", s, [text |-> text])))
    /\ started' = started + 1
    /\ UNCHANGED <<redis, ttl, used, sink, documents, config, faults>>

\* (mutant) the record read before update_proficiency is kept
RefreshSession_KeepsStale(f) ==
    LET session_data == get_session(f.session_id)
    IN  IF session_data = None
        THEN Finished(DictUpdate(f, [logged |-> f.logged \cup {"process_student_message"}]),
                      ErrorResult("Failed to process message"))
        ELSE DictUpdate(f, [pc |-> "psm_search"])

\* session_data = self.session_service.get_session(session_id)  # Refresh data
\* a missing record makes session_data['difficulty_level'] raise TypeError
RefreshSession(f) ==
    LET session_data == get_session(f.session_id)
    IN  IF session_data = None
        THEN Finished(DictUpdate(f, [logged |-> f.logged \cup {"process_student_message"}]),
                      ErrorResult("Failed to process message"))
        ELSE DictUpdate(f, [pc |-> "psm_search", session_data |-> session_data])

refresh_session(p) ==
    /\ At(p, "psm_refresh")
    /\ SetFrame(p, RefreshSession(frame[p]))
    /\ UNCHANGED <<redis, ttl, used, sink, documents, config, started, faults>>

\* what search_by_difficulty hands back when the retrieval call ends outcome
SearchResults(f, outcome) ==
    IF outcome = "ok"
    THEN search_by_difficulty(documents, f.text, f.session_data.difficulty_level,
                              f.session_data.subject)
    ELSE SearchFailed

\* (mutant) hybrid_search lets the exception through to the handler of
\* process_student_message
AfterSearch_Raises(f, outcome) ==
    IF outcome = "ok"
    THEN DictUpdate(f, [pc |-> "psm_generate", search_results |-> SearchResults(f, outcome)])
    ELSE Finished(DictUpdate(f, [logged |-> f.logged \cup {"hybrid_search"}]),
                  ErrorResult("Failed to process message"))

\* process_student_message after search_by_difficulty: hybrid_search has
\* caught what the embedding call or the store query raised
AfterSearch(f, outcome) ==
    DictUpdate(Logged(f, outcome, "hybrid_search"),
               [pc |-> "psm_generate", search_results |-> SearchResults(f, outcome),
                metadata_filters |-> DifficultyFilters(f.session_data.difficulty_level,
                                                       f.session_data.subject)])

\* search_by_difficulty: the embedding call and the content store query
search(p) ==
    /\ At(p, "psm_search")
    /\ \E outcome \in Outcomes :
          /\ SetFrame(p, AfterSearch(frame[p], outcome))
          /\ Fault(outcome)
    /\ UNCHANGED <<redis, ttl, used, sink, documents, config, started>>

\* the provider's text: it answers the utterance it was prompted with
Generated(provider, text) == [by |-> provider, answers |-> text]

\* the messages _generate_adaptive_response hands to the model: the system
\* instruction is the template of the strategy, filled in with the level
Messages(f) ==
    [system_instruction |->
         [prompt |-> SelectStrategy(f.session_data.interaction_count,
                                    Utterances[f.text]),
          difficulty_level |-> f.session_data.difficulty_level],
     difficulty_level |-> f.session_data.difficulty_level,
     proficiency_score |-> f.session_data.proficiency_score,
     message |-> f.text]

\* (mutant) the strategy is chosen from the number of exchanges
Response_CountsExchanges(f, provider) ==
    [content |-> Generated(provider, f.text),
     strategy |-> SelectStrategy(f.session_data.interaction_count \div 2,
                                 Utterances[f.text])]

\* _generate_adaptive_response when model(messages) returns
Response(f, provider) ==
    [content |-> Generated(provider, f.text),
     strategy |-> SelectStrategy(f.session_data.interaction_count, Utterances[f.text])]

\* (mutant) the student turn is appended although the generation failed
GenerationFailed_StudentKept(f, provider) ==
    DictUpdate(f, [pc |-> "atc_get", ret |-> "idle", messages |-> Messages(f),
                   provider_calls |-> Append(f.provider_calls, provider),
                   logged |-> f.logged \cup {"process_student_message"},
                   message |-> StudentTurn(f)])

\* _generate_adaptive_response when model(messages) raises: the exception
\* reaches the handler of process_student_message
GenerationFailed(f, provider) ==
    Finished(DictUpdate(f, [provider_calls |-> Append(f.provider_calls, provider),
                            messages |-> Messages(f),
                            logged |-> f.logged \cup {"process_student_message"}]),
             ErrorResult("Failed to process message"))

\* after a successful generation: the first add_to_conversation is called
GenerationDone(f, provider) ==
    LET g == DictUpdate(f, [response |-> Response(f, provider),
                            messages |-> Messages(f),
                            provider_calls |-> Append(f.provider_calls, provider)])
    IN  DictUpdate(g, [pc |-> "atc_get", ret |-> "psm_teacher",
                       message |-> StudentTurn(g)])

\* _generate_adaptive_response: get_active_model() and model(messages)
generate(p) ==
    /\ At(p, "psm_generate")
    /\ LET provider == get_active_model(config)
       IN  \E outcome \in CallOutcomes(config, provider) :
              /\ SetFrame(p, IF outcome = "ok" THEN GenerationDone(frame[p], provider)
                             ELSE GenerationFailed(frame[p], provider))
              /\ Fault(outcome)
    /\ UNCHANGED <<redis, ttl, used, sink, documents, config, started>>

(* -------------------------------- time -------------------------------- *)
\* the length of a tick: TicksPerTtl of them cover session_ttl
TickSeconds == (session_ttl + TicksPerTtl - 1) \div TicksPerTtl

\* TickSeconds pass: every key ages, a key whose lifetime is over is dropped
Tick ==
    /\ \E s \in SessionIds : redis[s] # None
    /\ ttl' = [s \in SessionIds |-> Max(0, ttl[s] - TickSeconds)]
    /\ redis' = [s \in SessionIds |-> IF ttl[s] - TickSeconds > 0 THEN redis[s] ELSE None]
    /\ UNCHANGED <<used, sink, documents, config, frame, started, faults>>

(* ---------------------------- specification --------------------------- *)
InitWith(cfgs) ==
    /\ redis = [s \in SessionIds |-> None]
    /\ ttl = [s \in SessionIds |-> 0]
    /\ used = {}
    /\ conversation_history = <<>>
    /\ session_summaries = <<>>
    /\ user_experiences = <<>>
    /\ documents = StoredDocuments
    /\ config \in cfgs
    /\ frame = [p \in Procs |-> IdleFrame]
    /\ started = 0
    /\ faults = 0

Init == InitWith({DeployedConfig})

Step(p) ==
    \/ create_session(p)
    \/ change_subject(p)
    \/ update_session_get(p)
    \/ update_session_setex(p)
    \/ add_to_conversation(p)
    \/ update_proficiency(p)
    \/ update_proficiency_get(p)
    \/ end_session(p)
    \/ store_conversation_history(p)
    \/ store_user_experience(p)
    \/ store_session_summary(p)
    \/ end_session_delete(p)
    \/ process_student_message(p)
    \/ refresh_session(p)
    \/ search(p)
    \/ generate(p)

\* concurrent workers, within the sessions' lifetime
Next == \E p \in Procs : Step(p)

Spec == Init /\ [][Next]_vars

\* one request at a time under every configuration, and time passes
NextSeq == Step(1) \/ Tick

InitSeq == InitWith(Configs)

SpecSeq == InitSeq /\ [][NextSeq]_vars

(* ----------------------- one call at a time --------------------------- *)
\* The estimator, the strategy chain, update_proficiency, hybrid_search and
\* process_student_message, each called once on a stored session and a
\* documents table, over every utterance, score, interaction count, score
\* change, filter dict, limit and table of the ranges below.
\* interaction counts a stored session is drawn with
MaxCount == 4
\* size of the largest score change update_proficiency is called with
MaxDelta == 101

Scores == SCORE_MIN..SCORE_MAX
Counts == 0..MaxCount
Deltas == (0 - MaxDelta)..MaxDelta

\* a turn of an earlier exchange
PastTurn(i) ==
    IF i % 2 = 1
    THEN [type |-> "student", message |-> 5, request |-> 0,
          proficiency_level |-> DEFAULT_DIFFICULTY,
          proficiency_score |-> INITIAL_PROFICIENCY]
    ELSE [type |-> "teacher", message |-> Generated("learnlm", 5), request |-> 0,
          teaching_strategy |-> "assessment", search_results_used |-> 0]

\* a session as update_proficiency and add_to_conversation leave it: the
\* level goes with the score, the count with the turns
StoredSession(score, count) ==
    [NewSessionData EXCEPT !.proficiency_score = score,
                           !.difficulty_level = LevelOf(score),
                           !.interaction_count = count,
                           !.conversation_history = [i \in 1..count |-> PastTurn(i)]]

\* concurrent workers on a session that earlier submissions have taken to
\* the last score below advanced
InitStale ==
    /\ redis = [s \in SessionIds |->
                   IF s = 1 THEN StoredSession(ADVANCED_MIN - 1, 0) ELSE None]
    /\ ttl = [s \in SessionIds |-> IF s = 1 THEN session_ttl ELSE 0]
    /\ used = {1}
    /\ conversation_history = <<>>
    /\ session_summaries = <<>>
    /\ user_experiences = <<>>
    /\ documents = StoredDocuments
    /\ config = DeployedConfig
    /\ frame = [p \in Procs |-> IdleFrame]
    /\ started = 1
    /\ faults = 0

SpecStale == InitStale /\ [][Next]_vars

\* the frame of a call that is about to run
CallFrame(op, pc, fields) ==
    DictUpdate(IdleFrame,
               DictUpdate([op |-> op, pc |-> pc, session_id |-> 1, request |-> 2], fields))

\* one score of each level
LevelScores == {SCORE_MIN, INITIAL_PROFICIENCY, SCORE_MAX}

\* the documents tables: empty, the sample rows, many rows alike
Stores == {<<>>, StoredDocuments, LargeStore}

\* the filter dicts: at most one value for a key, a key the search does not
\* know among them
FilterItems ==
    {<<"subject", "english">>, <<"subject", "math">>,
     <<"difficulty_level", "intermediate">>, <<"difficulty_level", "advanced">>,
     <<"content_type", "exercise">>, <<"topic", "grammar">>}
FilterDicts ==
    {d \in SUBSET FilterItems : \A a \in d, b \in d : a[1] = b[1] => a = b}

\* the limits: negative, zero, the default, more than any table holds
Limits == (0 - 1)..MaxLimit

\* the JSON bodies POST /chat is tried with: none, one field missing, both
ChatBodies ==
    {None}
    \cup {[session_id |-> s] : s \in SessionIds}
    \cup {[message |-> t] : t \in ChatTextIds}
    \cup {[message |-> t, session_id |-> s] : t \in ChatTextIds, s \in SessionIds}

\* the tables a call is tried on: every one when the call reads the table
StoresOf(op) ==
    IF op \in {"hybrid_search", "process_student_message", "chat"} THEN Stores
    ELSE {StoredDocuments}

\* the calls, each with the session it finds in the store
PendingCalls ==
    {[stored |-> StoredSession(INITIAL_PROFICIENCY, 0),
      frame |-> CallFrame("hybrid_search", "hs_call",
                          [text |-> query, metadata_filters |-> metadata_filters,
                           limit |-> limit])] :
        query \in ChatTextIds, metadata_filters \in FilterDicts, limit \in Limits}
    \cup
    {[stored |-> StoredSession(score, count),
      frame |-> CallFrame("process_student_message", "psm_get", [text |-> t])] :
        score \in LevelScores, count \in Counts, t \in TextIds}
    \cup
    {[stored |-> StoredSession(score, 0),
      frame |-> CallFrame("process_student_message", "psm_get", [text |-> t])] :
        score \in Scores, t \in TextIds}
    \cup
    {[stored |-> StoredSession(INITIAL_PROFICIENCY, count),
      frame |-> CallFrame("chat", "chat_get", [session_id |-> 0, data |-> data])] :
        count \in Counts, data \in ChatBodies}
    \cup
    {[stored |-> StoredSession(score, count),
      frame |-> CallFrame("end_session", "end_get",
                          [session_id |-> s, user_experience |-> user_experience])] :
        score \in LevelScores, count \in Counts, s \in SessionIds,
        user_experience \in BOOLEAN}
    \cup
    {[stored |-> StoredSession(score, 0),
      frame |-> CallFrame("_analyze_proficiency", "ap_call",
                          [text |-> t, session_data |-> StoredSession(score, 0)])] :
        score \in Scores, t \in TextIds}
    \cup
    {[stored |-> StoredSession(INITIAL_PROFICIENCY, count),
      frame |-> CallFrame("_generate_adaptive_response", "strategy_call",
                          [text |-> t,
                           session_data |-> StoredSession(INITIAL_PROFICIENCY, count)])] :
        count \in Counts, t \in TextIds}
    \cup
    {[stored |-> StoredSession(score, 0),
      frame |-> CallFrame("update_proficiency", "up_get", [score_change |-> delta])] :
        score \in Scores, delta \in Deltas}

\* _analyze_proficiency(message, session_data) returns
analyze_proficiency(p) ==
    /\ At(p, "ap_call")
    /\ LET score_change ==
               AnalyzeProficiency(Utterances[frame[p].text],
                                  frame[p].session_data.difficulty_level)
       IN  SetFrame(p, Finished(DictUpdate(frame[p], [score_change |-> score_change]),
                                [score_change |-> score_change,
                                 complexity_indicators |->
                                     ComplexityIndicators(Utterances[frame[p].text])]))
    /\ UNCHANGED <<redis, ttl, used, sink, documents, config, started, faults>>

\* _generate_adaptive_response up to the strategy it has chosen
select_strategy(p) ==
    /\ At(p, "strategy_call")
    /\ SetFrame(p, Finished(frame[p],
            [strategy |-> SelectStrategy(frame[p].session_data.interaction_count,
                                         Utterances[frame[p].text])]))
    /\ UNCHANGED <<redis, ttl, used, sink, documents, config, started, faults>>

\* (mutant) a search that finds nothing ends as an error
HybridSearchReturn_EmptyIsError(f, outcome) ==
    LET found == IF outcome = "ok"
                 THEN hybrid_search(documents, f.text, f.metadata_filters, f.limit)
                 ELSE SearchFailed
    IN  Finished(Logged(f, outcome, "hybrid_search"),
                 IF found = <<>> THEN ErrorResult("No results") ELSE Returned(found))

\* what hybrid_search returns: the list, or [] from its except branch when the
\* embedding call or the store query raised
HybridSearchReturn(f, outcome) ==
    Finished(Logged(f, outcome, "hybrid_search"),
             Returned(IF outcome = "ok"
                      THEN hybrid_search(documents, f.text, f.metadata_filters, f.limit)
                      ELSE SearchFailed))

\* hybrid_search(query, metadata_filters, limit) is called
hybrid_search_call(p) ==
    /\ At(p, "hs_call")
    /\ \E outcome \in Outcomes :
          /\ SetFrame(p, HybridSearchReturn(frame[p], outcome))
          /\ Fault(outcome)
    /\ UNCHANGED <<redis, ttl, used, sink, documents, config, started>>

\* process_student_message(session_id, message): its first GET
process_get(p) ==
    /\ At(p, "psm_get")
    /\ SetFrame(p, ProcessGet(frame[p]))
    /\ UNCHANGED <<redis, ttl, used, sink, documents, config, started, faults>>

\* not data or a field missing from it
HasFields(data, fields) == data # None /\ fields \subseteq DOMAIN data

\* a response the route builds itself
Responded(f, result, status) == [Finished(f, result) EXCEPT !.status = status]

\* POST /chat up to its call of process_student_message
ChatGet(f) ==
    IF ~HasFields(f.data, {"message", "session_id"})
    THEN Responded(f, ErrorResult("Missing required fields"), 400)
    ELSE LET session_data == get_session(f.data.session_id)
         IN  IF session_data = None
             THEN Responded(f, ErrorResult("Session not found or expired"), 404)
             ELSE IF session_data.session_status # "active"
             THEN Responded(f, ErrorResult("Session is not active"), 400)
             ELSE DictUpdate(f, [pc |-> "psm_get", session_id |-> f.data.session_id,
                                 text |-> f.data.message])

\* a request POST /chat arrives
chat(p) ==
    /\ At(p, "chat_get")
    /\ SetFrame(p, ChatGet(frame[p]))
    /\ UNCHANGED <<redis, ttl, used, sink, documents, config, started, faults>>

\* end_session(session_id, user_experience): its GET
end_get(p) ==
    /\ At(p, "end_get")
    /\ SetFrame(p, EndSessionGet(frame[p]))
    /\ UNCHANGED <<redis, ttl, used, sink, documents, config, started, faults>>

\* the positions whose next statement is a call of the session store
STORE_CALLS ==
    {"chat_get", "psm_get", "psm_refresh", "end_get", "end_delete",
     "up_get", "atc_get", "us_get", "us_set"}
CallsStore(f) ==
    /\ f.pc \in STORE_CALLS
    /\ f.pc = "chat_get" => HasFields(f.data, {"message", "session_id"})

\* (mutant) the exception leaves the method
StoreRaised_Propagates(f) == Finished(f, Raised("ConnectionError"))

\* the session store raises: the handler the exception reaches decides what
\* the request returns
StoreRaised(f) ==
    IF f.pc = "chat_get"
    THEN Responded(f, ErrorResult("ConnectionError"), 500)
    ELSE IF f.op \in {"process_student_message", "chat"}
    THEN Finished(DictUpdate(f, [logged |-> f.logged \cup {"process_student_message"}]),
                  ErrorResult("Failed to process message"))
    ELSE IF f.op = "end_session"
    THEN Finished(DictUpdate(f, [logged |-> f.logged \cup {"end_session"}]),
                  Returned(FALSE))
    ELSE Finished(f, Raised("ConnectionError"))

\* a call of the session store raises instead of answering
store_raises(p) ==
    /\ CallsStore(frame[p])
    /\ faults < MaxFaults
    /\ SetFrame(p, StoreRaised(frame[p]))
    /\ faults' = faults + 1
    /\ UNCHANGED <<redis, ttl, used, sink, documents, config, started>>

InitFn ==
    /\ \E call \in PendingCalls :
          /\ redis = [s \in SessionIds |-> IF s = 1 THEN call.stored ELSE None]
          /\ frame = [p \in Procs |-> IF p = 1 THEN call.frame ELSE IdleFrame]
          /\ documents \in StoresOf(call.frame.op)
    /\ ttl = [s \in SessionIds |-> IF s = 1 THEN session_ttl ELSE 0]
    /\ used = {1}
    /\ conversation_history = <<>>
    /\ session_summaries = <<>>
    /\ user_experiences = <<>>
    /\ config = DeployedConfig
    /\ started = 2
    /\ faults = 0

NextFn ==
    \/ analyze_proficiency(1)
    \/ select_strategy(1)
    \/ hybrid_search_call(1)
    \/ update_proficiency_get(1)
    \/ update_session_get(1)
    \/ update_session_setex(1)
    \/ chat(1)
    \/ process_get(1)
    \/ refresh_session(1)
    \/ search(1)
    \/ generate(1)
    \/ add_to_conversation(1)
    \/ end_get(1)
    \/ store_conversation_history(1)
    \/ store_user_experience(1)
    \/ store_session_summary(1)
    \/ end_session_delete(1)
    \/ store_raises(1)

SpecFn == InitFn /\ [][NextFn]_vars

(* ------------------------------- claims ------------------------------- *)
Live(s) == redis[s] # None
Done(p, op) == frame[p].pc = "idle" /\ frame[p].op = op
Replied(p) ==
    Done(p, "process_student_message") /\ "response" \in DOMAIN frame[p].result
Errored(p) ==
    Done(p, "process_student_message") /\ "error" \in DOMAIN frame[p].result
InFlight(p, s) == frame[p].pc # "idle" /\ frame[p].session_id = s
\* the request worker p starts in this step
Arrives(p, op) ==
    /\ started' = started + 1
    /\ frame'[p].request = started'
    /\ frame'[p].op = op
Range(seq) == {seq[i] : i \in 1..Len(seq)}

\* the level the stated thresholds give a score
LevelByThresholds(score) ==
    CASE score >= 75 -> "advanced"
      [] score >= 40 /\ score < 75 -> "intermediate"
      [] score < 40 -> "beginner"

\* C1: in every reachable state, under every interleaving of the workers'
\* requests, each stored session's difficulty_level is the level its
\* proficiency_score has by the thresholds 75 and 40.
C1_LevelMatchesScore ==
    \A s \in SessionIds :
        Live(s) => redis[s].difficulty_level = LevelByThresholds(redis[s].proficiency_score)

\* a session whose score has left the default level and that holds turns
C1_Witness ==
    \E s \in SessionIds :
        /\ Live(s)
        /\ redis[s].difficulty_level # DEFAULT_DIFFICULTY
        /\ redis[s].conversation_history # <<>>

\* the turns of request r stand next to each other in history h
PairedIn(h, r) ==
    \E i \in 1..(Len(h) - 1) :
        /\ h[i].type = "student" /\ h[i].request = r
        /\ h[i + 1].type = "teacher" /\ h[i + 1].request = r

\* C2: when the creation and two overlapping submissions on one session are
\* all that ran and both submissions replied, the history holds all four
\* turns, each student turn directly followed by its own teacher turn, and
\* the score holds both submissions' changes.
C2_ConcurrentSubmissionsLoseNothing ==
    \A s \in SessionIds :
        ( /\ Live(s)
          /\ started = Cardinality(Procs) + 1
          /\ \A p \in Procs : Replied(p) /\ frame[p].session_id = s )
        => LET h == redis[s].conversation_history
           IN  /\ Len(h) = 2 * Cardinality(Procs)
               /\ \A p \in Procs : PairedIn(h, frame[p].request)
               /\ redis[s].interaction_count = Len(h)
               /\ redis[s].proficiency_score =
                      INITIAL_PROFICIENCY + frame[1].score_change + frame[2].score_change

\* C3: after a submission that replied, the stored interaction_count is one
\* more than the count the submission found (the count its reply reports).
C3_OneIncrementPerSubmission ==
    \A p \in Procs :
        (Replied(p) /\ Live(frame[p].session_id))
        => redis[frame[p].session_id].interaction_count
               = frame[p].result.interaction_count + 1

DurableWrites == {"_store_conversation_history", "_store_session_summary"}

\* C4: when end_session returns after one of its two durable inserts failed,
\* it returns False and the record it found is still in the live store.
C4_WriteFailureKeepsRecord ==
    [][ \A p \in Procs :
          ( /\ frame[p].op = "end_session"
            /\ frame[p].pc # "idle"
            /\ frame'[p].pc = "idle"
            /\ frame'[p].logged \cap DurableWrites # {}
            /\ Live(frame[p].session_id) )
          => /\ frame'[p].result = Returned(FALSE)
             /\ redis'[frame[p].session_id] # None ]_vars

\* a session that was created, is not in the store and has no request in flight
Gone(s) == s \in used /\ ~Live(s) /\ \A p \in Procs : ~InFlight(p, s)
Refused(f) ==
    /\ f.pc = "idle"
    /\ f.result \in {Returned(FALSE), ErrorResult("Invalid session")}

\* C5: when end_session returns True for a session no other request is in
\* flight on, the session is gone; and a session that is gone stays gone:
\* its key stays absent and every request that arrives for it is refused at
\* once (False, or the error of process_student_message).
C5_EndIsTerminal ==
    [][ \A s \in SessionIds :
          /\ \A p \in Procs :
                ( /\ At(p, "end_delete") /\ frame[p].session_id = s
                  /\ frame'[p].pc = "idle"
                  /\ frame'[p].result = Returned(TRUE)
                  /\ \A q \in Procs \ {p} : ~InFlight(q, s) )
                => Gone(s)'
          /\ Gone(s) =>
                /\ Gone(s)'
                /\ \A p \in Procs :
                      (frame'[p] # frame[p] /\ frame'[p].session_id = s)
                      => Refused(frame'[p]) ]_vars

\* a submission was refused on a session whose two durable records exist
C5_Witness ==
    \E p \in Procs :
        /\ Errored(p)
        /\ Gone(frame[p].session_id)
        /\ \E i \in 1..Len(session_summaries) :
              session_summaries[i].session_id = frame[p].session_id
        /\ \E i \in 1..Len(conversation_history) :
              conversation_history[i].session_id = frame[p].session_id

\* C6: an end_session that arrives for a session id with no record in the
\* live store (never created, expired or ended) returns False at once,
\* logs no exception, and leaves the live store and the durable tables as
\* they are.
C6_EndOfMissingSession ==
    [][ \A p \in Procs :
          (Arrives(p, "end_session") /\ ~Live(frame'[p].session_id))
          => /\ frame'[p].pc = "idle"
             /\ frame'[p].result = Returned(FALSE)
             /\ frame'[p].logged = {}
             /\ UNCHANGED <<redis, ttl, sink>> ]_vars

\* end_session returned False for a session an earlier end_session stored
C6_Witness ==
    \E p \in Procs :
        /\ Done(p, "end_session")
        /\ frame[p].result = Returned(FALSE)
        /\ frame[p].logged = {}
        /\ \E i \in 1..Len(conversation_history) :
              conversation_history[i].session_id = frame[p].session_id

\* C7: the step in which the generation call of a submission fails ends the
\* submission with an error result and writes nothing; the stored history
\* and interaction_count are the ones the submission found, and no turn of
\* the submission is in the history.
C7_GenerationFailureAppendsNothing ==
    [][ \A p \in Procs :
          (At(p, "psm_generate") /\ frame'[p] # frame[p] /\ frame'[p].response = None)
          => /\ frame'[p].pc = "idle"
             /\ "error" \in DOMAIN frame'[p].result
             /\ redis' = redis
             /\ Live(frame[p].session_id) =>
                   LET stored == redis'[frame[p].session_id]
                   IN  /\ stored.conversation_history
                              = frame[p].session_data.conversation_history
                       /\ stored.interaction_count
                              = frame[p].session_data.interaction_count
                       /\ \A i \in 1..Len(stored.conversation_history) :
                              stored.conversation_history[i].request # frame[p].request
        ]_vars

\* a submission failed in its generation call on a session that holds the
\* turns of an earlier submission
C7_Witness ==
    \E p \in Procs :
        /\ Errored(p)
        /\ frame[p].provider_calls # <<>>
        /\ Live(frame[p].session_id)
        /\ redis[frame[p].session_id].conversation_history # <<>>

PrimaryConfigured == config.PREFER_LEARNLM /\ config.GOOGLE_API_KEY

\* C8: a submission that called a provider called the fallback first when
\* the primary is not configured; and when it called the primary, failed
\* and the fallback is configured, it called the fallback too.
C8_FallbackEngaged ==
    \A p \in Procs :
        (Done(p, "process_student_message") /\ frame[p].provider_calls # <<>>)
        => /\ ~PrimaryConfigured => frame[p].provider_calls[1] = "openrouter"
           /\ ( /\ PrimaryConfigured
                /\ config.OPENROUTER_API_KEY
                /\ "error" \in DOMAIN frame[p].result )
              => "openrouter" \in Range(frame[p].provider_calls)

\* C9: a process_student_message that arrives for a session that is not in
\* the live store, or whose status is not active, returns an error result
\* in its first step: no retrieval or generation call is made and the live
\* store and the durable tables are unchanged.
C9_UnavailableSessionFailsFirst ==
    [][ \A p \in Procs :
          ( /\ Arrives(p, "process_student_message")
            /\ IF Live(frame'[p].session_id)
               THEN redis[frame'[p].session_id].session_status # "active"
               ELSE TRUE )
          => /\ frame'[p].pc = "idle"
             /\ "error" \in DOMAIN frame'[p].result
             /\ frame'[p].provider_calls = <<>>
             /\ frame'[p].logged = {}
             /\ UNCHANGED <<redis, ttl, sink, faults>> ]_vars

\* a submission was refused for a session that was created and has ended
C9_Witness ==
    \E p \in Procs :
        /\ Errored(p)
        /\ frame[p].result = ErrorResult("Invalid session")
        /\ frame[p].session_id \in used

\* C10: a submission whose retrieval call failed goes on with an empty
\* snippet sequence: it makes the generation call, and when it replies the
\* session's history ends with its two turns, the teacher turn counting 0
\* snippets.
C10_RetrievalFailureIsSoft ==
    \A p \in Procs :
        (frame[p].op = "process_student_message" /\ "hybrid_search" \in frame[p].logged)
        => /\ frame[p].search_results = <<>>
           /\ frame[p].pc = "idle" => frame[p].provider_calls # <<>>
           /\ (Replied(p) /\ Live(frame[p].session_id)) =>
                 LET h == redis[frame[p].session_id].conversation_history
                 IN  /\ Len(h) >= 2
                     /\ h[Len(h) - 1].type = "student"
                     /\ h[Len(h) - 1].request = frame[p].request
                     /\ h[Len(h)].type = "teacher"
                     /\ h[Len(h)].request = frame[p].request
                     /\ h[Len(h)].search_results_used = 0

\* a submission replied after its retrieval call had failed
C10_Witness ==
    \E p \in Procs :
        /\ Replied(p)
        /\ "hybrid_search" \in frame[p].logged
        /\ Live(frame[p].session_id)

\* C11: _analyze_proficiency gives an utterance without tokens the score
\* change 0, whatever the session's level.
C11_EmptyUtteranceChangesNothing ==
    [][ \A p \in Procs :
          ( /\ At(p, "ap_call")
            /\ frame'[p].pc = "idle"
            /\ Split(Utterances[frame[p].text]) = <<>> )
          => frame'[p].result.score_change = 0 ]_vars

\* the levels whose stated range holds a score
LevelsByThresholds(score) ==
    {l \in {"beginner", "intermediate", "advanced"} :
        \/ l = "advanced" /\ score >= 75
        \/ l = "intermediate" /\ score >= 40 /\ score <= 74
        \/ l = "beginner" /\ score < 40}

\* C12: the write of an update_proficiency call stores the sum of the score
\* it found and the change, cut to 0 below and to 100 above, and a level
\* that is the one and only level whose range holds the stored score.
C12_ScoreClampedLevelUnique ==
    [][ \A p \in Procs :
          ( /\ At(p, "us_set")
            /\ frame[p].op = "update_proficiency"
            /\ frame'[p].pc = "idle"
            /\ "returned" \in DOMAIN frame'[p].result
            /\ Live(frame[p].session_id) )
          => LET sum == redis[frame[p].session_id].proficiency_score
                            + frame[p].score_change
                 stored == redis'[frame[p].session_id]
             IN  /\ stored.proficiency_score \in 0..100
                 /\ stored.proficiency_score =
                        (IF sum < 0 THEN 0 ELSE IF sum > 100 THEN 100 ELSE sum)
                 /\ LevelsByThresholds(stored.proficiency_score)
                        = {stored.difficulty_level} ]_vars

\* update_proficiency returned True after a change that had to be cut at 100
C12_Witness ==
    \E p \in Procs :
        /\ Done(p, "update_proficiency")
        /\ frame[p].result = Returned(TRUE)
        /\ frame[p].score_change = MaxDelta
        /\ redis[frame[p].session_id].proficiency_score = SCORE_MAX
        /\ redis[frame[p].session_id].difficulty_level = "advanced"

\* C13: when create_session returns an id, the record get_session reads
\* under that id has proficiency_score 50, difficulty_level intermediate,
\* interaction_count 0, an empty conversation_history and session_status
\* active.
C13_NewSessionDefaults ==
    [][ \A p \in Procs :
          (Arrives(p, "create_session") /\ "returned" \in DOMAIN frame'[p].result)
          => LET session_data == redis'[frame'[p].result.returned]
             IN  /\ session_data # None
                 /\ session_data.proficiency_score = 50
                 /\ session_data.difficulty_level = "intermediate"
                 /\ session_data.interaction_count = 0
                 /\ session_data.conversation_history = <<>>
                 /\ session_data.session_status = "active" ]_vars

\* create_session returned the id of a record that is in the store
C13_Witness ==
    \E p \in Procs :
        /\ Done(p, "create_session")
        /\ "returned" \in DOMAIN frame[p].result
        /\ Live(frame[p].result.returned)
        /\ ttl[frame[p].result.returned] = session_ttl

\* C14: for a session with 3 or more interactions, an utterance that holds
\* '?' or one of what, how, why, when, where, and none of test, quiz, exam,
\* practice, gets the strategy concept_teaching, also when it holds a
\* session-ending keyword.
C14_QuestionBeforeEnding ==
    [][ \A p \in Procs :
          (At(p, "strategy_call") /\ frame'[p].pc = "idle")
          => LET message == Utterances[frame[p].text]
                 interaction_count == frame[p].session_data.interaction_count
             IN  ( /\ interaction_count >= 3
                   /\ Contains(message, <<"?">>) \/ AnyIn(QUESTION_WORDS, message)
                   /\ ~AnyIn(TEST_WORDS, message) )
                 => frame'[p].result = [strategy |-> "concept_teaching"] ]_vars

\* "when does it end" was given concept_teaching
C14_Witness ==
    \E p \in Procs :
        /\ Done(p, "_generate_adaptive_response")
        /\ Utterances[frame[p].text] = WHEN_END_TEXT
        /\ AnyIn(ENDING_WORDS, Utterances[frame[p].text])
        /\ frame[p].result = [strategy |-> "concept_teaching"]

\* C15: for a session with fewer than 3 interactions every utterance gets
\* the strategy assessment, whichever keywords it holds.
C15_AssessmentFirst ==
    [][ \A p \in Procs :
          ( /\ At(p, "strategy_call")
            /\ frame'[p].pc = "idle"
            /\ frame[p].session_data.interaction_count < 3 )
          => frame'[p].result = [strategy |-> "assessment"] ]_vars

\* "quiz me", which holds a test keyword, was given assessment
C15_Witness ==
    \E p \in Procs :
        /\ Done(p, "_generate_adaptive_response")
        /\ Utterances[frame[p].text] = QUIZ_TEXT
        /\ AnyIn(TEST_WORDS, Utterances[frame[p].text])
        /\ frame[p].result = [strategy |-> "assessment"]

\* C16: a step that completes the write of update_session (called directly,
\* by add_to_conversation or by update_proficiency) leaves the session with
\* a lifetime of 3600 seconds; no other step of a request lengthens a
\* lifetime, so a lifetime only grows by a write; and a key is in the store
\* exactly while its lifetime, which never exceeds 3600 seconds, is not over.
C16_MutationRefreshesLifetime ==
    [][ \A s \in SessionIds :
          /\ \A p \in Procs :
                (At(p, "us_set") /\ frame[p].session_id = s /\ frame'[p] # frame[p])
                => /\ ttl'[s] = 3600
                   /\ Live(s)'
          /\ ttl'[s] > ttl[s] =>
                \E p \in Procs :
                    /\ frame'[p] # frame[p]
                    /\ frame[p].session_id = s \/ frame'[p].session_id = s
                    /\ At(p, "us_set") \/ frame'[p].op = "create_session"
          /\ Live(s)' <=> ttl'[s] > 0
          /\ ttl'[s] <= 3600
          /\ (frame' = frame /\ Live(s) /\ ttl[s] * TicksPerTtl <= 3600) => ~Live(s)' ]_vars

\* a submission was refused on a session that nothing ended: its lifetime
\* ran out
C16_Witness ==
    \E p \in Procs :
        /\ Errored(p)
        /\ frame[p].result = ErrorResult("Invalid session")
        /\ frame[p].session_id \in used
        /\ ~Live(frame[p].session_id)
        /\ conversation_history = <<>>
        /\ session_summaries = <<>>
        /\ faults = 0

\* the rows a durable table holds for session s
RowsOf(table, s) == {i \in 1..Len(table) : table[i].session_id = s}

\* C17: the durable sink never holds more than one conversation-history
\* row and never more than one summary row for a session.
C17_OneRecordPerSession ==
    \A s \in SessionIds :
        /\ Cardinality(RowsOf(conversation_history, s)) <= 1
        /\ Cardinality(RowsOf(session_summaries, s)) <= 1

\* C18: the step in which an end_session deletes the key comes after both
\* inserts were made (each has left its row or its logged failure); when
\* that end_session returns True both rows of the session are in the sink
\* before the delete; and no earlier step of an end_session changes the
\* live store.
C18_StoredBeforeDeleted ==
    [][ \A p \in Procs :
          LET s == frame[p].session_id
          IN  /\ (At(p, "end_delete") /\ frame'[p] # frame[p])
                 => /\ \/ RowsOf(conversation_history, s) # {}
                       \/ "_store_conversation_history" \in frame[p].logged
                    /\ \/ RowsOf(session_summaries, s) # {}
                       \/ "_store_session_summary" \in frame[p].logged
                    /\ frame'[p].result = Returned(TRUE)
                       => /\ RowsOf(conversation_history, s) # {}
                          /\ RowsOf(session_summaries, s) # {}
              /\ ( /\ frame[p].op = "end_session"
                   /\ frame[p].pc \notin {"idle", "end_delete"}
                   /\ frame'[p] # frame[p] )
                 => UNCHANGED <<redis, ttl>> ]_vars

\* end_session returned True: the key is gone and both rows are in the sink
C18_Witness ==
    \E p \in Procs :
        /\ Done(p, "end_session")
        /\ frame[p].result = Returned(TRUE)
        /\ ~Live(frame[p].session_id)
        /\ RowsOf(conversation_history, frame[p].session_id) # {}
        /\ RowsOf(session_summaries, frame[p].session_id) # {}

\* C19: the summary row an end_session inserts has proficiency_improvement
\* equal to its final score minus 50, the score create_session recorded,
\* and while the session is still in the live store its final score, final
\* level and total_interactions are the live record's.
C19_SummaryMatchesSession ==
    [][ \A p \in Procs :
          ( /\ At(p, "end_store_summary")
            /\ Len(session_summaries') = Len(session_summaries) + 1 )
          => LET row == session_summaries'[Len(session_summaries')]
                 s == frame[p].session_id
             IN  /\ row.session_id = s
                 /\ row.proficiency_improvement = row.final_proficiency_score - 50
                 /\ Live(s) =>
                       /\ row.proficiency_improvement =
                              redis[s].proficiency_score - redis[s].initial_proficiency
                       /\ row.final_proficiency_score = redis[s].proficiency_score
                       /\ row.final_difficulty_level = redis[s].difficulty_level
                       /\ row.total_interactions = redis[s].interaction_count ]_vars

\* a summary row of a session that had an exchange and whose score had moved
C19_Witness ==
    \E i \in 1..Len(session_summaries) :
        /\ session_summaries[i].proficiency_improvement # 0
        /\ session_summaries[i].total_interactions > 0

\* h is an initial part of g
IsPrefix(h, g) == Len(h) <= Len(g) /\ SubSeq(g, 1, Len(h)) = h

\* C20: in every step that leaves a session in the live store, the
\* conversation_history stored before the step is an initial part of the one
\* stored after it.
C20_HistoryAppendOnly ==
    [][ \A s \in SessionIds :
          (Live(s) /\ Live(s)')
          => IsPrefix(redis[s].conversation_history,
                      redis'[s].conversation_history) ]_vars

\* the stored row a snippet was made from
DocOf(snippet) == CHOOSE doc \in Range(documents) : doc.content = snippet.content
\* the cosine of two unit vectors, in hundredths
Cosine(u, v) == 100 * (u[1] * v[1] + u[2] * v[2])
\* the rows of the table that pass the filters of the three known keys
Passing(metadata_filters) ==
    {i \in 1..Len(documents) :
        \A item \in metadata_filters :
            item[1] \in FILTER_KEYS => documents[i][item[1]] = item[2]}
\* a hybrid_search call has returned its list and nothing was logged
Searched(p) ==
    /\ Done(p, "hybrid_search")
    /\ frame[p].logged = {}
    /\ "returned" \in DOMAIN frame[p].result

\* C21: the list hybrid_search returns is ordered most relevant first, and
\* the score of each snippet is the cosine similarity of the query's
\* embedding and the embedding stored with the snippet's row.
C21_ScoreIsCosine ==
    \A p \in Procs :
        Searched(p) =>
            LET found == frame[p].result.returned
                query_embedding == embed_query(frame[p].text)
            IN  /\ \A i \in 1..Len(found) :
                       found[i].score = Cosine(query_embedding, DocOf(found[i]).embedding)
                /\ \A i \in 1..Len(found), j \in 1..Len(found) :
                       i < j => Cosine(query_embedding, DocOf(found[i]).embedding)
                                >= Cosine(query_embedding, DocOf(found[j]).embedding)

\* C22: every snippet hybrid_search returns comes from a row that carries
\* exactly the value of every supplied subject, difficulty_level and
\* content_type filter, and the rows are filtered before they are limited and
\* ranked (the list holds as many snippets as rows pass, up to the limit);
\* every snippet search_by_difficulty hands to process_student_message has
\* the session's subject and level.
C22_ResultsMatchFilters ==
    \A p \in Procs :
        /\ Searched(p) =>
              LET found == frame[p].result.returned
              IN  /\ \A i \in 1..Len(found), item \in frame[p].metadata_filters :
                         item[1] \in FILTER_KEYS => DocOf(found[i])[item[1]] = item[2]
                  /\ Len(found) = Min(Max(frame[p].limit, 0),
                                      Cardinality(Passing(frame[p].metadata_filters)))
        /\ At(p, "psm_generate") =>
              \A i \in 1..Len(frame[p].search_results) :
                  LET doc == DocOf(frame[p].search_results[i])
                  IN  /\ doc.subject = frame[p].session_data.subject
                      /\ doc.difficulty_level = frame[p].session_data.difficulty_level

\* a search with all three filters returned the one row of several that
\* passes them
C22_Witness ==
    /\ Searched(1)
    /\ {item[1] : item \in frame[1].metadata_filters} = FILTER_KEYS
    /\ Len(frame[1].result.returned) = 1
    /\ Len(frame[1].result.returned) < frame[1].limit
    /\ Len(documents) > 1

\* C23: hybrid_search never returns more snippets than its limit, the limit
\* is 5 when none is given (search_by_difficulty), and a call with a limit of
\* zero or less is rejected: it does not end with a list.
C23_LimitRespected ==
    \A p \in Procs :
        /\ (Done(p, "hybrid_search") /\ frame[p].limit >= 1) =>
              /\ "returned" \in DOMAIN frame[p].result
              /\ Len(frame[p].result.returned) <= frame[p].limit
        /\ (Done(p, "hybrid_search") /\ frame[p].limit <= 0) =>
              "returned" \notin DOMAIN frame[p].result
        /\ At(p, "psm_generate") => Len(frame[p].search_results) <= 5

\* C24: a search whose filters no stored row passes, or on an empty table,
\* ends with the empty list as its normal result, and a submission whose
\* search found nothing goes on to the generation call.
C24_NoMatchIsEmptyList ==
    [][\A p \in Procs :
        /\ (frame'[p] # frame[p] /\ Done(p, "hybrid_search")' /\
            Passing(frame'[p].metadata_filters) = {}) =>
              /\ "returned" \in DOMAIN frame'[p].result
              /\ frame'[p].result.returned = <<>>
              /\ (faults' = faults => frame'[p].logged = {})
        /\ (At(p, "psm_search") /\ faults' = faults /\ frame'[p].search_results = <<>>) =>
              /\ frame'[p].pc = "psm_generate"
              /\ frame'[p].logged = frame[p].logged]_vars

\* a submission on an empty table has been answered, its teacher turn built
\* on no snippet and nothing logged
C24_Witness ==
    /\ Replied(1)
    /\ documents = <<>>
    /\ frame[1].logged = {}
    /\ LET history == redis[1].conversation_history
       IN  /\ history # <<>>
           /\ history[Len(history)].type = "teacher"
           /\ history[Len(history)].request = frame[1].request
           /\ history[Len(history)].search_results_used = 0

\* C25: under every interleaving, a step of a request addressed to one
\* session leaves the live record, its lifetime and the durable rows of every
\* other session as they were.
C25_OtherSessionsUntouched ==
    [][\A p \in Procs :
        frame'[p] # frame[p] =>
            \A t \in SessionIds \ {frame'[p].session_id} :
                /\ redis'[t] = redis[t]
                /\ ttl'[t] = ttl[t]
                /\ RowsOf(conversation_history', t) = RowsOf(conversation_history, t)
                /\ RowsOf(session_summaries', t) = RowsOf(session_summaries, t)
                /\ RowsOf(user_experiences', t) = RowsOf(user_experiences, t)]_vars

\* two sessions are live; one has taken a whole exchange, the other is as
\* it was created
C25_Witness ==
    /\ \E p \in Procs : Replied(p) /\ frame[p].session_id = 1
    /\ Live(1) /\ Len(redis[1].conversation_history) = 2
    /\ Live(2) /\ redis[2] = NewSessionData

\* C26: whatever collaborator fails (session store, durable sink, embedding
\* provider, content store, generation provider), process_student_message
\* does not raise but returns its reply or, when its handler caught the
\* failure, its error dict; end_session does not raise but returns a
\* boolean, False when its handler or one of its two required inserts failed.
C26_FailuresAreTyped ==
    \A p \in Procs :
        /\ Done(p, "process_student_message") =>
              /\ "raised" \notin DOMAIN frame[p].result
              /\ "error" \in DOMAIN frame[p].result \/ "response" \in DOMAIN frame[p].result
              /\ "process_student_message" \in frame[p].logged =>
                     frame[p].result = ErrorResult("Failed to process message")
        /\ Done(p, "end_session") =>
              /\ "returned" \in DOMAIN frame[p].result
              /\ frame[p].result.returned \in BOOLEAN
              /\ frame[p].logged \cap {"end_session", "_store_conversation_history",
                                       "_store_session_summary"} # {} =>
                     frame[p].result.returned = FALSE

\* the session store failed after the student turn of a submission was
\* written: the submission returned its error dict
C26_Witness ==
    /\ Errored(1)
    /\ faults = 1
    /\ "process_student_message" \in frame[1].logged
    /\ Len(frame[1].provider_calls) = 1
    /\ LET history == redis[1].conversation_history
       IN  /\ history # <<>>
           /\ history[Len(history)].type = "student"
           /\ history[Len(history)].request = frame[1].request

\* the answer of a route has been sent
Answered(p, op) == Done(p, op) /\ frame[p].status # 0

\* C27: POST /chat answers 400 to a body without message or session_id, 404
\* to a session that is not in the store, and 500 when the generation call
\* failed; POST /session/<id>/end answers 404 to a session that is not in the
\* store and 500 when a durable insert failed.
C27_StatusCodes ==
    \A p \in Procs :
        /\ Answered(p, "chat") =>
              /\ (frame[p].data = None \/ DOMAIN frame[p].data # {"message", "session_id"}) =>
                     frame[p].status = 400
              /\ frame[p].result = ErrorResult("Session not found or expired") =>
                     frame[p].status = 404
              /\ ("process_student_message" \in frame[p].logged
                  /\ frame[p].provider_calls # <<>>) =>
                     frame[p].status = 500
        /\ Answered(p, "end_session") =>
              /\ (frame[p].logged = {} /\ ~frame[p].result.returned) => frame[p].status = 404
              /\ frame[p].logged \cap {"_store_conversation_history",
                                       "_store_session_summary"} # {} =>
                     frame[p].status = 500

\* C28: the teacher turn process_student_message appends records the
\* strategy the response was generated with and the number of snippets that
\* went into the prompt, which is at most 3, however many snippets the
\* retrieval returned.
C28_TeacherTurnRecordsPrompt ==
    \A p \in Procs :
        (At(p, "atc_get") /\ frame[p].ret = "psm_return") =>
            /\ frame[p].message.type = "teacher"
            /\ frame[p].message.teaching_strategy = frame[p].response.strategy
            /\ frame[p].message.search_results_used
                   = Len(build_context(frame[p].search_results))
            /\ frame[p].message.search_results_used <= 3

\* worker p has finished an end_session that went as far as its DEL
Deleted(p, s) ==
    /\ Done(p, "end_session")
    /\ frame[p].session_id = s
    /\ frame[p].result.returned \/ frame[p].logged # {}

\* C29: once an end_session has deleted a session's record and every request
\* on the session has finished, the live store holds no record for the
\* session: a mutation that was in flight has not written it back.
C29_NoWriteAfterDelete ==
    \A s \in SessionIds :
        ((\E p \in Procs : Deleted(p, s)) /\ (\A q \in Procs : ~InFlight(q, s)))
            => ~Live(s)

\* C30: every conversation log end_session has written to the durable sink
\* consists of whole exchanges: each student turn is followed at once by the
\* teacher turn of the same submission.
C30_DurableLogHasWholeExchanges ==
    \A i \in 1..Len(conversation_history) :
        LET log == conversation_history[i].conversation_data
        IN  \A k \in 1..Len(log) :
                log[k].type = "student" =>
                    /\ k < Len(log)
                    /\ log[k + 1].type = "teacher"
                    /\ log[k + 1].request = log[k].request

\* C31: the rules of _analyze_proficiency are tried in order and the first
\* that matches decides: an utterance with vocabulary diversity above 0.8
\* and mean token length above 5 gets +5 at beginner, +3 at intermediate and
\* 0 at advanced, whatever a later rule would have given (an advanced
\* session gets 0, not -2 or -1, for a short rich utterance).
C31_RichRuleFirst ==
    [][ \A p \in Procs :
          LET words == Split(Utterances[frame[p].text])
              level == frame[p].session_data.difficulty_level
          IN  ( /\ At(p, "ap_call")
                /\ frame'[p].pc = "idle"
                /\ 5 * Cardinality(UniqueWords(words)) > 4 * Len(words)
                /\ SumLen(words) > 5 * Len(words) )
              => frame'[p].result.score_change =
                     CASE level = "beginner" -> 5
                       [] level = "intermediate" -> 3
                       [] OTHER -> 0 ]_vars

\* an advanced session has had the estimate 0 for a one-word rich utterance,
\* which the later rules (fewer than 3 tokens) would have lowered
C31_Witness ==
    \E p \in Procs :
        /\ Done(p, "_analyze_proficiency")
        /\ redis[frame[p].session_id].difficulty_level = "advanced"
        /\ Utterances[frame[p].text] = ONE_WORD_TEXT
        /\ Len(Split(Utterances[frame[p].text])) < 3
        /\ frame[p].result.score_change = 0

\* the number of '.', '!' and '?' in a message
Terminators(message) ==
    Cardinality({i \in 1..Len(message) : message[i] \in {".", "!", "?"}})

\* C32: the sentence count _analyze_proficiency works with is the number of
\* '.', '!' and '?' in the utterance, at least 1 (exactly one terminator
\* gives 1), and the mean sentence length is the token count divided by
\* that count.
C32_SentenceCount ==
    [][ \A p \in Procs :
          LET message == Utterances[frame[p].text]
              sentences == IF Terminators(message) > 1 THEN Terminators(message) ELSE 1
              measured == frame'[p].result.complexity_indicators
          IN  (At(p, "ap_call") /\ frame'[p].pc = "idle")
              => /\ measured.sentence_count = sentences
                 /\ measured.sentence_length[1] * sentences
                        = Len(Split(message)) * measured.sentence_length[2] ]_vars

\* C33: for the utterance "I dont no what too do" no rule of the estimator
\* matches at any level: the score change is 0, the submission goes from the
\* session check straight to the retrieval (unless the session store failed)
\* without calling update_proficiency, and no step of the submission changes
\* the stored score or level.
C33_NoRuleMatches ==
    [][ \A p \in Procs :
          LET s == frame[p].session_id
          IN  ( /\ frame[p].op = "process_student_message"
                /\ frame[p].pc # "idle"
                /\ Utterances[frame[p].text] = DONT_NO_TEXT
                /\ frame'[p] # frame[p] )
              => /\ frame'[p].pc # "up_get"
                 /\ frame'[p].score_change = 0
                 /\ (At(p, "psm_get") /\ Live(s) /\ frame'[p].pc # "idle")
                        => frame'[p].pc = "psm_search"
                 /\ Live(s)
                        => /\ redis'[s] # None
                           /\ redis'[s].proficiency_score = redis[s].proficiency_score
                           /\ redis'[s].difficulty_level = redis[s].difficulty_level ]_vars

\* an advanced session has been answered on "I dont no what too do" and is
\* still at the top score
C33_Witness ==
    \E p \in Procs :
        /\ Replied(p)
        /\ Utterances[frame[p].text] = DONT_NO_TEXT
        /\ Live(frame[p].session_id)
        /\ redis[frame[p].session_id].proficiency_score = SCORE_MAX
        /\ redis[frame[p].session_id].difficulty_level = "advanced"
        /\ frame[p].score_change = 0

\* C34: the steps of one submission come in the order estimate, score and
\* level update, retrieval, generation, history append. The update (when the
\* estimate is not 0) is written before the retrieval is called; the
\* retrieval is filtered by the subject and by the level stored for the
\* session at that moment, which is the level after this utterance's score
\* change; the system instruction handed to the model is filled in with the
\* same level; and no turn of the submission is stored before the generation
\* has returned.
C34_StepsInOrder ==
    [][ \A p \in Procs :
          LET f == frame[p]
              g == frame'[p]
              s == f.session_id
          IN  ( /\ f.op = "process_student_message"
                /\ f.pc # "idle"
                /\ g # f
                /\ Live(s) )
              => /\ (f.pc = "psm_get" /\ g.pc # "idle")
                       => /\ g.score_change =
                                 AnalyzeProficiency(Utterances[f.text],
                                                    redis[s].difficulty_level)
                          /\ g.pc = IF g.score_change # 0 THEN "up_get"
                                    ELSE "psm_search"
                 /\ (f.pc = "us_set" /\ f.ret = "psm_refresh" /\ g.pc # "idle")
                       => /\ redis'[s] = WithProficiency(redis[s], f.score_change)
                          /\ g.pc = "psm_refresh"
                          /\ f.metadata_filters = {}
                          /\ f.messages = None
                 /\ (f.pc = "psm_refresh" /\ g.pc # "idle")
                       => g.pc = "psm_search" /\ g.session_data = redis[s]
                 /\ f.pc = "psm_search"
                       => /\ g.pc = "psm_generate"
                          /\ g.metadata_filters =
                                 {<<"subject", redis[s].subject>>,
                                  <<"difficulty_level", redis[s].difficulty_level>>}
                          /\ \A i \in 1..Len(g.search_results) :
                                 /\ DocOf(g.search_results[i]).subject = redis[s].subject
                                 /\ DocOf(g.search_results[i]).difficulty_level
                                        = redis[s].difficulty_level
                          /\ f.messages = None
                 /\ f.pc = "psm_generate"
                       => /\ f.metadata_filters # {}
                          /\ g.messages.system_instruction.difficulty_level
                                 = redis[s].difficulty_level
                          /\ g.messages.difficulty_level = redis[s].difficulty_level
                          /\ \A i \in 1..Len(redis[s].conversation_history) :
                                 redis[s].conversation_history[i].request # f.request
                          /\ g.pc # "idle" => g.pc = "atc_get"
                 /\ redis'[s].conversation_history # redis[s].conversation_history
                       => f.messages # None /\ f.response # None ]_vars

\* a submission whose score change has taken the session from intermediate
\* to advanced has been answered: its retrieval was filtered by advanced and
\* found the advanced row, and its instruction was filled in with advanced
C34_Witness ==
    \E p \in Procs :
        LET s == frame[p].session_id
        IN  /\ Replied(p)
            /\ Live(s)
            /\ frame[p].score_change > 0
            /\ redis[s].proficiency_score >= ADVANCED_MIN
            /\ redis[s].proficiency_score - frame[p].score_change < ADVANCED_MIN
            /\ <<"difficulty_level", "advanced">> \in frame[p].metadata_filters
            /\ frame[p].messages.system_instruction.difficulty_level = "advanced"
            /\ redis[s].conversation_history[
                   Len(redis[s].conversation_history)].search_results_used = 1

\* C35: in every reachable state, whatever requests ran and however they
\* overlapped, the interaction_count of every session in the live store is
\* the number of turns in its conversation_history.
C35_CountIsHistoryLength ==
    \A s \in SessionIds :
        Live(s) => redis[s].interaction_count = Len(redis[s].conversation_history)

\* two submissions to one session have overlapped and both replied; one
\* of their four turns was overwritten, and the record holds three turns and
\* the count 3
C35_Witness ==
    /\ Replied(1)
    /\ Replied(2)
    /\ frame[1].session_id = frame[2].session_id
    /\ Live(frame[1].session_id)
    /\ Len(redis[frame[1].session_id].conversation_history) = 3
    /\ redis[frame[1].session_id].interaction_count = 3

\* C36: submissions processed one at a time keep proficiency_score within
\* 39..77. A new session starts inside the range; a submission that finds a
\* score of the range leaves a score of the range, writing the plain sum of
\* score and score change (the clamp to 0..100 does not bind); and the
\* estimator never gives a negative change at beginner nor a positive one at
\* advanced.
C36_SequentialScoreRange ==
    [][ /\ NewSessionData.proficiency_score \in 39..77
        /\ \A p \in Procs :
              LET f == frame[p]
                  g == frame'[p]
                  s == f.session_id
              IN  (f.op = "process_student_message" /\ f.pc # "idle" /\ Live(s))
                  => /\ (f.pc = "psm_get" /\ g.pc # "idle")
                           => /\ redis[s].difficulty_level = "beginner"
                                     => g.score_change >= 0
                              /\ redis[s].difficulty_level = "advanced"
                                     => g.score_change <= 0
                     /\ redis[s].proficiency_score \in 39..77
                           => /\ redis'[s] # None
                              /\ redis'[s].proficiency_score \in 39..77
                              /\ redis'[s].proficiency_score
                                     \in {redis[s].proficiency_score,
                                          redis[s].proficiency_score + f.score_change}
      ]_vars

\* a submission has taken a session from 74 to 77, the top of the range
C36_Witness ==
    \E p \in Procs :
        /\ Replied(p)
        /\ Live(frame[p].session_id)
        /\ frame[p].score_change = 3
        /\ redis[frame[p].session_id].proficiency_score = 77
        /\ redis[frame[p].session_id].difficulty_level = "advanced"

\* under SpecStale: two overlapped submissions, both estimated at the level
\* intermediate, have both replied and left a score above 77
C36_StaleLevelOverlap ==
    /\ Replied(1)
    /\ Replied(2)
    /\ frame[1].score_change > 0
    /\ frame[2].score_change > 0
    /\ Live(1)
    /\ redis[1].proficiency_score > 77

\* C37: when the generation call of a submission fails, the submission ends
\* with the error result, no turn of it is in the record, and the stored
\* score and level are those after the utterance's score change: the score
\* the submission found plus the change, and the level of that score.
C37_FailedGenerationKeepsDelta ==
    [][ \A p \in Procs :
          LET f == frame[p]
              s == f.session_id
          IN  ( /\ At(p, "psm_generate")
                /\ frame'[p] # f
                /\ frame'[p].response = None
                /\ Live(s) )
              => /\ frame'[p].pc = "idle"
                 /\ frame'[p].result = ErrorResult("Failed to process message")
                 /\ redis'[s] # None
                 /\ redis'[s].proficiency_score
                        = Clamp(f.found.proficiency_score + f.score_change)
                 /\ redis'[s].difficulty_level
                        = LevelOf(f.found.proficiency_score + f.score_change)
                 /\ \A i \in 1..Len(redis'[s].conversation_history) :
                        redis'[s].conversation_history[i].request # f.request ]_vars

\* a submission whose generation call failed has left the session one level
\* up, with no turn of it in the record
C37_Witness ==
    \E p \in Procs :
        LET s == frame[p].session_id
        IN  /\ Errored(p)
            /\ frame[p].provider_calls # <<>>
            /\ frame[p].messages # None
            /\ frame[p].score_change # 0
            /\ Live(s)
            /\ redis[s].proficiency_score
                   = frame[p].found.proficiency_score + frame[p].score_change
            /\ redis[s].difficulty_level # frame[p].found.difficulty_level
            /\ \A i \in 1..Len(redis[s].conversation_history) :
                   redis[s].conversation_history[i].request # frame[p].request

\* the submissions of a session the model follows: the third is the first
\* the keyword rules apply to
Submissions == 1..(MaxCount \div 2 + 1)

\* C38: a new session has interaction_count 0 and a submission that replies
\* leaves the count it found plus 2, so the k-th of the submissions processed
\* one at a time finds 2(k-1); the strategy of its reply is chosen from that
\* count: assessment for the first and the second, the keyword rules from
\* the third.
C38_StrategyByCount ==
    /\ NewSessionData.interaction_count = 0
    /\ \A p \in Procs :
          (Replied(p) /\ Live(frame[p].session_id)) =>
              LET count == frame[p].found.interaction_count
                  stored == redis[frame[p].session_id]
              IN  /\ stored.interaction_count = count + 2
                  /\ frame[p].result.teaching_strategy
                         = frame[p].messages.system_instruction.prompt
                  /\ \A k \in Submissions :
                         count = 2 * (k - 1) =>
                             /\ stored.interaction_count = 2 * k
                             /\ frame[p].result.teaching_strategy
                                    = IF k <= 2 THEN "assessment"
                                      ELSE KeywordStrategyOf[frame[p].text]

\* the third submission of a session, "quiz me", has been answered with the
\* strategy test_prep
C38_Witness ==
    \E p \in Procs :
        /\ Replied(p)
        /\ Live(frame[p].session_id)
        /\ frame[p].found.interaction_count = 4
        /\ redis[frame[p].session_id].interaction_count = 6
        /\ Utterances[frame[p].text] = QUIZ_TEXT
        /\ frame[p].result.teaching_strategy = "test_prep"

\* C39: after a submission that replied with no other request at work, the
\* reply's difficulty_level and proficiency_score are the stored ones, and
\* its interaction_count is the count the submission read before its two
\* turns were appended: the stored count minus 2.
C39_ReplyAgainstStore ==
    \A p \in Procs :
        (Replied(p) /\ Live(frame[p].session_id)) =>
            LET stored == redis[frame[p].session_id]
                reply == frame[p].result
            IN  /\ reply.difficulty_level = stored.difficulty_level
                /\ reply.proficiency_score = stored.proficiency_score
                /\ reply.interaction_count = frame[p].found.interaction_count
                /\ reply.interaction_count = stored.interaction_count - 2

\* a reply reports the score and level its own score change produced and
\* the count 0, while the record holds two turns
C39_Witness ==
    \E p \in Procs :
        LET stored == redis[frame[p].session_id]
        IN  /\ Replied(p)
            /\ Live(frame[p].session_id)
            /\ frame[p].score_change # 0
            /\ frame[p].result.proficiency_score
                   = frame[p].found.proficiency_score + frame[p].score_change
            /\ frame[p].result.difficulty_level # frame[p].found.difficulty_level
            /\ frame[p].result.interaction_count = 0
            /\ stored.interaction_count = 2
            /\ Len(stored.conversation_history) = 2

\* C40: in every reachable state every record in the live store has
\* session_status active. The status ended exists only on the copy
\* end_session holds and hands to the durable sink (every summary row
\* carries it); no record a request holds or is about to write carries it;
\* and no request ends with "Session is not active" (a status 400 is a
\* missing field or a failed submission).
C40_LiveRecordsAreActive ==
    /\ \A s \in SessionIds : Live(s) => redis[s].session_status = "active"
    /\ \A i \in 1..Len(session_summaries) :
           session_summaries[i].session_status = "ended"
    /\ \A p \in Procs :
           /\ (frame[p].session_data # None /\ frame[p].op # "end_session")
                  => frame[p].session_data.session_status = "active"
           /\ (frame[p].session_data # None /\ frame[p].op = "end_session")
                  => frame[p].session_data.session_status = "ended"
           /\ (frame[p].updates # None /\ "session_status" \in DOMAIN frame[p].updates)
                  => frame[p].updates.session_status = "active"
           /\ frame[p].result # ErrorResult("Session is not active")
           /\ frame[p].status = 400
                  => frame[p].result \in {ErrorResult("Missing required fields"),
                                          ErrorResult("Failed to process message")}

\* a session has been ended, its summary row says ended, its record is gone,
\* and a submission that came for it was told "Invalid session"
C40_Witness ==
    \E p \in Procs :
        LET s == frame[p].session_id
        IN  /\ Done(p, "process_student_message")
            /\ frame[p].result = ErrorResult("Invalid session")
            /\ s \in used
            /\ ~Live(s)
            /\ \E i \in 1..Len(session_summaries) :
                   /\ session_summaries[i].session_id = s
                   /\ session_summaries[i].session_status = "ended"
====
